---- MODULE Spec2Model ----
(***************************************************************************)
(* S.C.A.H. spreadsheet import: the row normalisers, the column mappers    *)
(* and the parse / import loops of                                         *)
(*   - utils/excel_parser.py        (class ExcelParser), and               *)
(*   - _rebuild_phase2.py           (module functions leer_archivo,        *)
(*                                   detectar_mapeo, procesar_dataframe,   *)
(*                                   used by ImportController.importar).   *)
(* Text is a sequence of one-character strings; Python's str methods are   *)
(* modelled character by character.                                        *)
(***************************************************************************)
EXTENDS Integers, Sequences, FiniteSets, TLC

----------------------------------------------------------------------------
(* Characters and Python str methods                                       *)

Digits == {"0", "1", "2", "3", "4", "5", "6", "7", "8", "9"}

LowerSeq ==
  <<"a","b","c","d","e","f","g","h","i","j","k","l","m","n","o","p","q","r",
    "s","t","u","v","w","x","y","z","á","é","í","ó","ú","ñ">>

UpperSeq ==
  <<"A","B","C","D","E","F","G","H","I","J","K","L","M","N","O","P","Q","R",
    "S","T","U","V","W","X","Y","Z","Á","É","Í","Ó","Ú","Ñ">>

Range(s) == {s[i] : i \in DOMAIN s}

Letters == Range(LowerSeq) \cup Range(UpperSeq)

\* str.split() / str.strip() whitespace: space, tab, newline and the
\* non-breaking space.
Whitespace == {" ", "<TAB>", "<LF>", "<NBSP>"}

\* The characters removed by re.sub(r"[\x00-\x1f\x7f-\x9f]", "", ...):
\* tab and newline are among them, <SOH> (\x01) is one that is no whitespace.
ControlChars == {"<TAB>", "<LF>", "<SOH>"}

IndexIn(s, c) == CHOOSE i \in DOMAIN s : s[i] = c

upperChar(c) == IF c \in Range(LowerSeq) THEN UpperSeq[IndexIn(LowerSeq, c)] ELSE c

lowerChar(c) == IF c \in Range(UpperSeq) THEN LowerSeq[IndexIn(UpperSeq, c)] ELSE c

upper(s) == [i \in DOMAIN s |-> upperChar(s[i])]

lower(s) == [i \in DOMAIN s |-> lowerChar(s[i])]

isdigit(s) == s # <<>> /\ \A i \in DOMAIN s : s[i] \in Digits

isalnum(s) == s # <<>> /\ \A i \in DOMAIN s : s[i] \in Digits \cup Letters

\* s.replace(c, "")
remove(s, c) == SelectSeq(s, LAMBDA x : x # c)

endswith(s, suf) ==
  /\ Len(s) >= Len(suf)
  /\ SubSeq(s, Len(s) - Len(suf) + 1, Len(s)) = suf

contains(s, c) == \E i \in DOMAIN s : s[i] = c

\* index of the first occurrence of c in s (s contains c)
find(s, c) == CHOOSE i \in DOMAIN s : s[i] = c /\ \A j \in 1..(i - 1) : s[j] # c

RECURSIVE lstrip(_)
lstrip(s) == IF s # <<>> /\ Head(s) \in Whitespace THEN lstrip(Tail(s)) ELSE s

RECURSIVE rstrip(_)
rstrip(s) ==
  IF s # <<>> /\ s[Len(s)] \in Whitespace THEN rstrip(SubSeq(s, 1, Len(s) - 1)) ELSE s

strip(s) == rstrip(lstrip(s))

\* length of the leading run of non-whitespace characters
RECURSIVE wordLen(_)
wordLen(s) == IF s = <<>> \/ Head(s) \in Whitespace THEN 0 ELSE 1 + wordLen(Tail(s))

\* s.split(): the whitespace-separated words of s
RECURSIVE split(_)
split(s) ==
  LET t == lstrip(s)
      n == wordLen(t)
  IN  IF t = <<>> THEN <<>>
      ELSE <<SubSeq(t, 1, n)>> \o split(SubSeq(t, n + 1, Len(t)))

\* " ".join(words)
RECURSIVE join(_)
join(words) ==
  IF words = <<>> THEN <<>>
  ELSE IF Len(words) = 1 THEN words[1]
  ELSE words[1] \o <<" ">> \o join(Tail(words))

\* int(s) for a string of digits
digitVal(c) == CHOOSE n \in 0..9 : <<"0","1","2","3","4","5","6","7","8","9">>[n + 1] = c

RECURSIVE toInt(_)
toInt(s) == IF s = <<>> THEN 0 ELSE 10 * toInt(SubSeq(s, 1, Len(s) - 1)) + digitVal(s[Len(s)])

\* Python's None and the empty string
None == <<"<None>">>

Empty == <<>>

\* the tuple (None, None): a non-empty tuple, so a true value
NoneNone == <<"<None>", "<None>">>

\* truth value of an Optional[str]
truthy(v) == v # None /\ v # Empty

----------------------------------------------------------------------------
(* utils/validators.py                                                     *)

sanitizar_texto(texto) ==
  IF ~truthy(texto) THEN Empty
  ELSE LET limpio == join(split(strip(texto)))
       IN  SelectSeq(limpio, LAMBDA c : c \notin ControlChars)

----------------------------------------------------------------------------
(* config/settings.py: the column dictionaries                             *)

COLUMNAS_IGNORAR ==
  << <<"n","°">>,
     <<"n","r","o">>,
     <<"n","º">>,
     <<"n">>,
     <<"#">>,
     <<"n","u","m","e","r","o">>,
     <<"n","ú","m","e","r","o">>,
     <<"i","t","e","m">>,
     <<"o","r","d","e","n">>,
     <<"n","r","o",".">>,
     <<"n","°",".">> >>

\* field by field, in the order of the dictionary
COLUMNAS_MAPEO ==
  << [campo |-> "nacionalidad", aliases |->
      << <<"n","a","c","i","o","n","a","l","i","d","a","d">>,
         <<"p","a","i","s">>,
         <<"p","a","í","s">>,
         <<"c","o","u","n","t","r","y">>,
         <<"n","a","t","i","o","n">>,
         <<"n","a","c","i","o","n">>,
         <<"n","a","c","i","ó","n">> >>],
     [campo |-> "procedencia", aliases |->
      << <<"p","r","o","c","e","d","e","n","c","i","a">>,
         <<"o","r","i","g","e","n">>,
         <<"c","i","u","d","a","d","_","o","r","i","g","e","n">>,
         <<"f","r","o","m">>,
         <<"d","o","m","i","c","i","l","i","o">>,
         <<"d","i","r","e","c","c","i","o","n">>,
         <<"d","i","r","e","c","c","i","ó","n">>,
         <<"c","i","u","d","a","d">> >>],
     [campo |-> "apellido_nombre", aliases |->
      << <<"a","p","e","l","l","i","d","o","_","y","_","n","o","m","b","r","e">>,
         <<"a","p","e","l","l","i","d","o","/","n","o","m","b","r","e">>,
         <<"a","p","e","l","l","i","d","o","_","n","o","m","b","r","e">>,
         <<"a","p","e","l","l","i","d","o","_","y","_","n","o","m","b","r","e","s">>,
         <<"a","p","e","l","l","i","d","o","s","_","y","_","n","o","m","b","r","e">>,
         <<"a","p","e","l","l","i","d","o","s","_","y","_","n","o","m","b","r","e","s">>,
         <<"n","o","m","b","r","e","_","y","_","a","p","e","l","l","i","d","o">>,
         <<"n","o","m","b","r","e","_","a","p","e","l","l","i","d","o">>,
         <<"n","o","m","b","r","e","s","_","y","_","a","p","e","l","l","i","d","o">> >>],
     [campo |-> "apellido", aliases |->
      << <<"a","p","e","l","l","i","d","o">>,
         <<"a","p","e","l","l","i","d","o","s">>,
         <<"l","a","s","t","_","n","a","m","e">>,
         <<"s","u","r","n","a","m","e">> >>],
     [campo |-> "nombre", aliases |->
      << <<"n","o","m","b","r","e">>,
         <<"n","o","m","b","r","e","s">>,
         <<"f","i","r","s","t","_","n","a","m","e">>,
         <<"n","a","m","e">> >>],
     [campo |-> "dni", aliases |->
      << <<"d","n","i">>,
         <<"d","o","c","u","m","e","n","t","o">>,
         <<"n","r","o","_","d","o","c","u","m","e","n","t","o">>,
         <<"d","o","c","u","m","e","n","t">>,
         <<"d",".","n",".","i">>,
         <<"d",".","n",".","i",".">>,
         <<"n","°","_","d","o","c">>,
         <<"n","r","o","_","d","o","c">>,
         <<"n","_","d","o","c">>,
         <<"n","°","_","d","o","c","u","m","e","n","t","o">>,
         <<"n","º","_","d","o","c">>,
         <<"n","º","_","d","o","c","u","m","e","n","t","o">>,
         <<"n","u","m","e","r","o","_","d","o","c","u","m","e","n","t","o">>,
         <<"n","ú","m","e","r","o","_","d","o","c","u","m","e","n","t","o">>,
         <<"n","u","m","e","r","o","_","d","o","c">>,
         <<"n","°","d","o","c">>,
         <<"n","°","_","d","e","_","d","o","c">>,
         <<"n","r","o",".","_","d","o","c">>,
         <<"n","r","o",".","_","d","o","c","u","m","e","n","t","o">>,
         <<"d","n","i","/","p","a","s","a","p","o","r","t","e">>,
         <<"d","n","i","_","/","_","p","a","s","a","p","o","r","t","e">>,
         <<"d","n","i","_","o","_","p","a","s","a","p","o","r","t","e">>,
         <<"d",".","n",".","i",".","_","/","_","p","a","s",".">>,
         <<"d",".","n",".","i",".","_","/","_","p","a","s">>,
         <<"d","n","i","_","/","_","p","a","s",".">>,
         <<"d","n","i","_","/","_","p","a","s">>,
         <<"d","n","i","/","p","a","s">>,
         <<"d",".","n",".","i",".","/","p","a","s",".">>,
         <<"d",".","n",".","i",".","/","p","a","s">>,
         <<"d",".","n",".","i",".","/","p","a","s","a","p","o","r","t","e">>,
         <<"d","n","i","/","p","a","s",".">>,
         <<"d",".","n",".","i","_","/","_","p","a","s">>,
         <<"d","n","i","_","p","a","s">> >>],
     [campo |-> "pasaporte", aliases |->
      << <<"p","a","s","a","p","o","r","t","e">>,
         <<"p","a","s","s","p","o","r","t">>,
         <<"n","r","o","_","p","a","s","a","p","o","r","t","e">>,
         <<"n","°","_","p","a","s","a","p","o","r","t","e">>,
         <<"n","º","_","p","a","s","a","p","o","r","t","e">> >>],
     [campo |-> "edad", aliases |->
      << <<"e","d","a","d">>,
         <<"a","g","e">>,
         <<"a","ñ","o","s">>,
         <<"e","d","a","d","e","s">> >>],
     [campo |-> "fecha_nacimiento", aliases |->
      << <<"f","e","c","h","a","_","n","a","c","i","m","i","e","n","t","o">>,
         <<"f","e","c","h","a","_","d","e","_","n","a","c","i","m","i","e","n","t","o">>,
         <<"n","a","c","i","m","i","e","n","t","o">>,
         <<"f","e","c","h","a","_","d","e","_","n","a","c",".">>,
         <<"f","e","c","h","a","_","d","e","_","n","a","c">>,
         <<"f","e","c","h","a","_","n","a","c">>,
         <<"f","e","c","h","a","_","n","a","c",".">>,
         <<"f",".","_","n","a","c",".">>,
         <<"f",".","_","n","a","c">>,
         <<"f","e","c",".","_","n","a","c",".">>,
         <<"f","e","c",".","_","n","a","c">>,
         <<"f","e","c",".","_","n","a","c","i","m","i","e","n","t","o">>,
         <<"f",".","n","a","c">>,
         <<"f",".","n","a","c",".">>,
         <<"f","e","c",".","n","a","c">>,
         <<"f","e","c",".","n","a","c",".">>,
         <<"b","i","r","t","h","_","d","a","t","e">>,
         <<"d","a","t","e","_","o","f","_","b","i","r","t","h">>,
         <<"f","c","h","_","n","a","c">>,
         <<"f","c","h",".","_","n","a","c">>,
         <<"f","c","h",".","_","n","a","c",".">> >>],
     [campo |-> "profesion", aliases |->
      << <<"p","r","o","f","e","s","i","o","n">>,
         <<"p","r","o","f","e","s","i","ó","n">>,
         <<"o","c","u","p","a","c","i","o","n">>,
         <<"o","c","u","p","a","c","i","ó","n">>,
         <<"p","r","o","f","e","s","s","i","o","n">>,
         <<"o","c","c","u","p","a","t","i","o","n">>,
         <<"p","r","o","f">>,
         <<"p","r","o","f",".">> >>],
     [campo |-> "establecimiento", aliases |->
      << <<"h","o","t","e","l">>,
         <<"e","s","t","a","b","l","e","c","i","m","i","e","n","t","o">>,
         <<"a","l","o","j","a","m","i","e","n","t","o">>,
         <<"h","o","s","t","a","l">>,
         <<"p","e","n","s","i","o","n">>,
         <<"p","e","n","s","i","ó","n">>,
         <<"h","o","s","p","e","d","a","j","e">>,
         <<"h","o","s","t","e","r","i","a">>,
         <<"h","o","s","t","e","r","í","a">>,
         <<"a","p","a","r","t">>,
         <<"a","p","a","r","t","_","h","o","t","e","l">>,
         <<"m","o","t","e","l">>,
         <<"r","e","s","i","d","e","n","c","i","a","l">>,
         <<"p","o","s","a","d","a">> >>],
     [campo |-> "habitacion", aliases |->
      << <<"h","a","b","i","t","a","c","i","o","n">>,
         <<"h","a","b","i","t","a","c","i","ó","n">>,
         <<"r","o","o","m">>,
         <<"n","r","o","_","h","a","b","i","t","a","c","i","o","n">>,
         <<"n","r","o","_","h","a","b","i","t","a","c","i","ó","n">>,
         <<"c","u","a","r","t","o">>,
         <<"n","°","_","h","a","b">>,
         <<"n","°","_","h","a","b",".">>,
         <<"n","º","_","h","a","b">>,
         <<"n","r","o",".","_","h","a","b">>,
         <<"n","°","_","h","a","b","i","t","a","c","i","o","n">>,
         <<"n","°","_","h","a","b","i","t","a","c","i","ó","n">> >>],
     [campo |-> "destino", aliases |->
      << <<"d","e","s","t","i","n","o">>,
         <<"d","e","s","t","i","n","a","t","i","o","n">>,
         <<"h","a","c","i","a">>,
         <<"a","_","d","o","n","d","e">>,
         <<"d","e","s","t","i","n","o","_","a">> >>],
     [campo |-> "vehiculo", aliases |->
      << <<"v","e","h","i","c","u","l","o">>,
         <<"v","e","h","í","c","u","l","o">>,
         <<"v","e","h","i","c","l","e">>,
         <<"a","u","t","o">>,
         <<"c","o","c","h","e">>,
         <<"v","e","h","i","c">>,
         <<"v","e","h","i","c",".">>,
         <<"p","a","t","e","n","t","e">>,
         <<"d","o","m","i","n","i","o">>,
         <<"d","a","t","o","s","_","v","e","h","i","c","u","l","o">>,
         <<"d","a","t","o","s","_","v","e","h","í","c","u","l","o">> >>],
     [campo |-> "telefono", aliases |->
      << <<"t","e","l","e","f","o","n","o">>,
         <<"t","e","l","é","f","o","n","o">>,
         <<"p","h","o","n","e">>,
         <<"c","e","l","u","l","a","r">>,
         <<"m","o","b","i","l","e">>,
         <<"n","r","o","_","t","e","l","e","f","o","n","o">>,
         <<"n","r","o","_","t","e","l","é","f","o","n","o">>,
         <<"n","°","_","t","e","l">>,
         <<"n","°","_","t","e","l",".">>,
         <<"n","º","_","t","e","l">>,
         <<"c","o","n","t","a","c","t","o">> >>],
     [campo |-> "fecha_entrada", aliases |->
      << <<"f","e","c","h","a","_","e","n","t","r","a","d","a">>,
         <<"i","n","g","r","e","s","o">>,
         <<"c","h","e","c","k","_","i","n">>,
         <<"e","n","t","r","a","d","a">>,
         <<"c","h","e","c","k","i","n">>,
         <<"f","e","c","h","a","_","i","n","g","r","e","s","o">>,
         <<"f",".","_","e","n","t","r","a","d","a">>,
         <<"f",".","_","i","n","g","r","e","s","o">>,
         <<"f","e","c","h","a","_","d","e","_","e","n","t","r","a","d","a">>,
         <<"f","e","c","h","a","_","d","e","_","i","n","g","r","e","s","o">>,
         <<"f","e","c",".","_","e","n","t","r","a","d","a">>,
         <<"f","e","c",".","_","i","n","g","r","e","s","o">>,
         <<"f",".","e","n","t","r","a","d","a">>,
         <<"f",".","i","n","g","r","e","s","o">>,
         <<"f","e","c",".","e","n","t","r","a","d","a">>,
         <<"f","e","c",".","i","n","g","r","e","s","o">> >>],
     [campo |-> "fecha_salida", aliases |->
      << <<"f","e","c","h","a","_","s","a","l","i","d","a">>,
         <<"e","g","r","e","s","o">>,
         <<"c","h","e","c","k","_","o","u","t">>,
         <<"s","a","l","i","d","a">>,
         <<"c","h","e","c","k","o","u","t">>,
         <<"f","e","c","h","a","_","e","g","r","e","s","o">>,
         <<"f",".","_","s","a","l","i","d","a">>,
         <<"f",".","_","e","g","r","e","s","o">>,
         <<"f","e","c","h","a","_","d","e","_","s","a","l","i","d","a">>,
         <<"f","e","c","h","a","_","d","e","_","e","g","r","e","s","o">>,
         <<"f","e","c",".","_","s","a","l","i","d","a">>,
         <<"f","e","c",".","_","e","g","r","e","s","o">>,
         <<"f",".","s","a","l","i","d","a">>,
         <<"f",".","e","g","r","e","s","o">>,
         <<"f","e","c",".","s","a","l","i","d","a">>,
         <<"f","e","c",".","e","g","r","e","s","o">> >>] >>

\* the name of each field as text: the key of the dictionary
Clave ==
  [ nacionalidad |-> <<"n","a","c","i","o","n","a","l","i","d","a","d">>,
    procedencia |-> <<"p","r","o","c","e","d","e","n","c","i","a">>,
    apellido_nombre |-> <<"a","p","e","l","l","i","d","o","_","n","o","m","b","r","e">>,
    apellido |-> <<"a","p","e","l","l","i","d","o">>,
    nombre |-> <<"n","o","m","b","r","e">>,
    dni |-> <<"d","n","i">>,
    pasaporte |-> <<"p","a","s","a","p","o","r","t","e">>,
    edad |-> <<"e","d","a","d">>,
    fecha_nacimiento |-> <<"f","e","c","h","a","_","n","a","c","i","m","i","e","n","t","o">>,
    profesion |-> <<"p","r","o","f","e","s","i","o","n">>,
    establecimiento |-> <<"e","s","t","a","b","l","e","c","i","m","i","e","n","t","o">>,
    habitacion |-> <<"h","a","b","i","t","a","c","i","o","n">>,
    destino |-> <<"d","e","s","t","i","n","o">>,
    vehiculo |-> <<"v","e","h","i","c","u","l","o">>,
    telefono |-> <<"t","e","l","e","f","o","n","o">>,
    fecha_entrada |-> <<"f","e","c","h","a","_","e","n","t","r","a","d","a">>,
    fecha_salida |-> <<"f","e","c","h","a","_","s","a","l","i","d","a">> ]

----------------------------------------------------------------------------
(* Normalisation of column names                                           *)

AsciiLower == {LowerSeq[i] : i \in 1..26}

\* a in b, for two strings
isin(a, b) == \E i \in 1..(Len(b) - Len(a) + 1) : SubSeq(b, i, i + Len(a) - 1) = a

\* unicodedata.normalize("NFKD", c).encode("ascii", "ignore") of one
\* character: an accented letter loses its accent, the ordinal indicator
\* becomes "o", the non-breaking space a space, and the degree sign, which
\* has no ASCII decomposition, is dropped
nfkd_ascii_char(c) ==
  LET base == <<"a", "e", "i", "o", "u", "n">>
      BASE == <<"A", "E", "I", "O", "U", "N">>
  IN  IF c \in Range(LowerSeq) /\ IndexIn(LowerSeq, c) > 26
      THEN <<base[IndexIn(LowerSeq, c) - 26]>>
      ELSE IF c \in Range(UpperSeq) /\ IndexIn(UpperSeq, c) > 26
      THEN <<BASE[IndexIn(UpperSeq, c) - 26]>>
      ELSE IF c = "º" THEN <<"o">>
      ELSE IF c = "<NBSP>" THEN <<" ">>
      ELSE IF c = "°" THEN <<>>
      ELSE <<c>>

RECURSIVE nfkd_ascii(_)
nfkd_ascii(s) ==
  IF s = <<>> THEN <<>> ELSE nfkd_ascii_char(Head(s)) \o nfkd_ascii(Tail(s))

\* re.sub(r"[^a-z0-9]+", "_", s): every run of other characters becomes "_"
RECURSIVE sub_no_alnum(_)
sub_no_alnum(s) ==
  IF s = <<>> THEN <<>>
  ELSE IF Head(s) \in AsciiLower \cup Digits THEN <<Head(s)>> \o sub_no_alnum(Tail(s))
  ELSE LET resto == sub_no_alnum(Tail(s))
       IN  IF resto # <<>> /\ Head(resto) = "_" THEN resto ELSE <<"_">> \o resto

RECURSIVE strip_underscore(_)
strip_underscore(s) ==
  IF s # <<>> /\ Head(s) = "_" THEN strip_underscore(Tail(s))
  ELSE IF s # <<>> /\ s[Len(s)] = "_" THEN strip_underscore(SubSeq(s, 1, Len(s) - 1))
  ELSE s

\* _rebuild_phase2.py
_normalize(text) ==
  IF text = Empty THEN Empty
  ELSE strip_underscore(sub_no_alnum(lower(nfkd_ascii(text))))

\* s.replace(" ", "_")
espacios_a_guion(s) == [i \in DOMAIN s |-> IF s[i] = " " THEN "_" ELSE s[i]]

\* col.strip().lower().replace(" ", "_")
col_clean(col) == espacios_a_guion(lower(strip(col)))

\* utils/excel_parser.py: normalize, local to _auto_map_columns
normalize(text) ==
  remove(remove(remove(nfkd_ascii(col_clean(text)), "."), "°"), "º")

----------------------------------------------------------------------------
(* The column titles of the workbooks of the runs                           *)

Titulos ==
  { <<"A","p","e","l","l","i","d","o">>,
    <<"N","o","m","b","r","e">>,
    <<"D","N","I">>,
    <<"F","e","c","h","a"," ","E","n","t","r","a","d","a">>,
    <<"A","p","e","l","l","i","d","o"," ","y"," ","N","o","m","b","r","e">>,
    <<"D","o","c","u","m","e","n","t","o">>,
    <<"I","n","g","r","e","s","o">>,
    <<"P","a","s","a","p","o","r","t","e">>,
    <<"O","b","s">>,
    <<"D","o","c">>,
    <<"D","N","I"," ","N","r","o">>,
    <<"N","°">> }

----------------------------------------------------------------------------
(* _rebuild_phase2.py: mapping of columns to fields                        *)

\* "no field": the None a mapper returns
NingunCampo == "<None>"

\* _normalize(patron) for patron in COLUMNAS_IGNORAR
ignorar_normalize ==
  {_normalize(COLUMNAS_IGNORAR[i]) : i \in DOMAIN COLUMNAS_IGNORAR}

\* _normalize(alias) of every alias, field by field: the code computes them
\* anew on every call
aliases_normalize ==
  [i \in DOMAIN COLUMNAS_MAPEO |->
     [j \in DOMAIN COLUMNAS_MAPEO[i].aliases |->
        _normalize(COLUMNAS_MAPEO[i].aliases[j])]]

_is_ignorable(col_normalized) ==
  \/ col_normalized \in ignorar_normalize
  \/ col_normalized = Empty
  \/ isdigit(col_normalized)

\* the first field of the dictionary, in its order, among the fields whose
\* positions are in S
primer_campo(S) ==
  IF S # {} THEN COLUMNAS_MAPEO[CHOOSE k \in S : \A m \in S : k <= m].campo
  ELSE NingunCampo

_map_column(col_name) ==
  LET normalized == _normalize(col_name)
      exacta == {i \in DOMAIN COLUMNAS_MAPEO :
                   \E j \in DOMAIN aliases_normalize[i] :
                     aliases_normalize[i][j] = normalized}
      parcial == {i \in DOMAIN COLUMNAS_MAPEO :
                    \E j \in DOMAIN aliases_normalize[i] :
                      \/ isin(aliases_normalize[i][j], normalized)
                      \/ isin(normalized, aliases_normalize[i][j])}
  IN  IF normalized = Empty \/ _is_ignorable(normalized) THEN NingunCampo
      ELSE IF exacta # {} THEN primer_campo(exacta)
      ELSE primer_campo(parcial)

\* _map_column of each column title of the runs, computed once
_map_column_de == [t \in {strip(x) : x \in Titulos} |-> _map_column(t)]

\* a mapping {column: field} is the sequence of its items in insertion order
campos_mapeados(mapeo) == {mapeo[i].campo : i \in DOMAIN mapeo}

RECURSIVE detectar_mapeo_cols(_, _)
detectar_mapeo_cols(columns, mapeo) ==
  IF columns = <<>> THEN mapeo
  ELSE LET col_str == strip(Head(columns))
           campo == _map_column_de[col_str]
       IN  IF campo # NingunCampo /\ campo \notin campos_mapeados(mapeo)
           THEN detectar_mapeo_cols(Tail(columns),
                                    Append(mapeo, [col |-> col_str, campo |-> campo]))
           ELSE detectar_mapeo_cols(Tail(columns), mapeo)

\* detectar_mapeo(df), of the columns of df
detectar_mapeo(columns) == detectar_mapeo_cols(columns, <<>>)

\* the check as it would be if only the DNI counted as a document
obtener_columnas_faltantes_solo_dni(mapeo) ==
  LET tiene_nombre_completo == "apellido_nombre" \in campos_mapeados(mapeo)
      tiene_nombre_separado == /\ "apellido" \in campos_mapeados(mapeo)
                               /\ "nombre" \in campos_mapeados(mapeo)
  IN  (IF ~tiene_nombre_completo /\ ~tiene_nombre_separado
       THEN <<"apellido_nombre (o apellido + nombre separados)">> ELSE <<>>)
      \o (IF "dni" \notin campos_mapeados(mapeo)
          THEN <<"dni o pasaporte">> ELSE <<>>)
      \o (IF "fecha_entrada" \notin campos_mapeados(mapeo)
          THEN <<"fecha_entrada (entrada)">> ELSE <<>>)

obtener_columnas_faltantes(mapeo) ==
  LET tiene_nombre_completo == "apellido_nombre" \in campos_mapeados(mapeo)
      tiene_nombre_separado == /\ "apellido" \in campos_mapeados(mapeo)
                               /\ "nombre" \in campos_mapeados(mapeo)
  IN  (IF ~tiene_nombre_completo /\ ~tiene_nombre_separado
       THEN <<"apellido_nombre (o apellido + nombre separados)">> ELSE <<>>)
      \o (IF "dni" \notin campos_mapeados(mapeo) /\ "pasaporte" \notin campos_mapeados(mapeo)
          THEN <<"dni o pasaporte">> ELSE <<>>)
      \o (IF "fecha_entrada" \notin campos_mapeados(mapeo)
          THEN <<"fecha_entrada (entrada)">> ELSE <<>>)

\* campo_a_col = {campo: col_excel for col_excel, campo in mapeo.items()}:
\* the last column mapped to the field
invertir_mapeo(mapeo) ==
  [c \in campos_mapeados(mapeo) |->
     mapeo[CHOOSE i \in DOMAIN mapeo :
             mapeo[i].campo = c /\ \A k \in (i + 1)..Len(mapeo) : mapeo[k].campo # c].col]

----------------------------------------------------------------------------
(* utils/excel_parser.py: ExcelParser._auto_map_columns                    *)

ignorar_norm == {normalize(COLUMNAS_IGNORAR[i]) : i \in DOMAIN COLUMNAS_IGNORAR}

normalized_aliases ==
  [i \in DOMAIN COLUMNAS_MAPEO |->
     [j \in DOMAIN COLUMNAS_MAPEO[i].aliases |->
        normalize(COLUMNAS_MAPEO[i].aliases[j])]]

cols_validas(file_columns) ==
  SelectSeq(file_columns, LAMBDA col : normalize(col) \notin ignorar_norm)

\* the tests that bind column col to field number i: an alias or a
\* normalised alias equal to the column, or an alias of 5 or more characters
\* that contains or is contained in the normalised column
coincide(col, i) ==
  \/ col_clean(col) \in Range(COLUMNAS_MAPEO[i].aliases)
  \/ \E alias_norm \in Range(normalized_aliases[i]) :
       \E col_normalized \in {normalize(col)} :
         \/ alias_norm = col_normalized
         \/ /\ Len(alias_norm) >= 5
            /\ isin(alias_norm, col_normalized) \/ isin(col_normalized, alias_norm)

\* the fields each column title of the runs can be bound to, computed once
coincide_de ==
  [c \in {col_clean(x) : x \in Titulos} |-> {i \in DOMAIN COLUMNAS_MAPEO : coincide(c, i)}]

\* the loop as it would be without "if col in mapping: continue"
RECURSIVE auto_map_desde_sin_continue(_, _, _)
auto_map_desde_sin_continue(i, cols, mapping) ==
  IF i > Len(COLUMNAS_MAPEO) THEN mapping
  ELSE LET libres == SelectSeq(cols, LAMBDA col : i \in coincide_de[col])
       IN  IF libres = <<>> THEN auto_map_desde_sin_continue(i + 1, cols, mapping)
           ELSE auto_map_desde_sin_continue(i + 1, cols,
                  Append(mapping, [col |-> libres[1], campo |-> COLUMNAS_MAPEO[i].campo]))

\* the loop over COLUMNAS_MAPEO.items() from field number i on: each field
\* takes the first column, not yet mapped, that passes the tests
RECURSIVE auto_map_desde(_, _, _)
auto_map_desde(i, cols, mapping) ==
  IF i > Len(COLUMNAS_MAPEO) THEN mapping
  ELSE LET libres == SelectSeq(cols, LAMBDA col :
                       /\ \A k \in DOMAIN mapping : mapping[k].col # col
                       /\ i \in coincide_de[col])
       IN  IF libres = <<>> THEN auto_map_desde(i + 1, cols, mapping)
           ELSE auto_map_desde(i + 1, cols,
                  Append(mapping, [col |-> libres[1], campo |-> COLUMNAS_MAPEO[i].campo]))

_auto_map_columns(file_columns) == auto_map_desde(1, cols_validas(file_columns), <<>>)

----------------------------------------------------------------------------
(* Dates: datetime.strptime on the formats the two parsers list            *)

NoDate == [y |-> 0, m |-> 0, d |-> 0]

isLeap(y) == (y % 4 = 0 /\ y % 100 # 0) \/ y % 400 = 0

daysInMonth(y, m) ==
  IF m = 2 THEN (IF isLeap(y) THEN 29 ELSE 28)
  ELSE IF m \in {4, 6, 9, 11} THEN 30 ELSE 31

\* s.split(sep): the parts of s between occurrences of sep
RECURSIVE splitBy(_, _)
splitBy(s, sep) ==
  IF ~contains(s, sep) THEN <<s>>
  ELSE LET i == find(s, sep)
       IN  <<SubSeq(s, 1, i - 1)>> \o splitBy(SubSeq(s, i + 1, Len(s)), sep)

\* one directive of a format: %d and %m take one or two digits, %Y four,
\* %y two (00-68 -> 20xx, 69-99 -> 19xx)
fieldOk(k, p) ==
  /\ isdigit(p)
  /\ CASE k = "d" -> Len(p) \in {1, 2} /\ toInt(p) \in 1..31
       [] k = "m" -> Len(p) \in {1, 2} /\ toInt(p) \in 1..12
       [] k = "Y" -> Len(p) = 4 /\ toInt(p) >= 1
       [] k = "y" -> Len(p) = 2

fieldYear(k, p) ==
  IF k = "Y" THEN toInt(p)
  ELSE IF toInt(p) < 69 THEN 2000 + toInt(p) ELSE 1900 + toInt(p)

\* datetime.strptime(s, fmt).date(), NoDate standing for ValueError.
\* fmt = [sep |-> separator, ord |-> the three directives in order]
strptime(s, fmt) ==
  LET parts == splitBy(s, fmt.sep)
      pos(k) == CHOOSE i \in 1..3 : fmt.ord[i] = k
      yk == IF \E i \in 1..3 : fmt.ord[i] = "Y" THEN "Y" ELSE "y"
  IN  IF Len(parts) # 3 \/ \E i \in 1..3 : ~fieldOk(fmt.ord[i], parts[i])
      THEN NoDate
      ELSE LET yy == fieldYear(yk, parts[pos(yk)])
               mm == toInt(parts[pos("m")])
               dd == toInt(parts[pos("d")])
           IN  IF dd <= daysInMonth(yy, mm)
               THEN [y |-> yy, m |-> mm, d |-> dd]
               ELSE NoDate

\* fecha or otra: the first of the two that is a date
fecha_o(fecha, otra) == IF fecha # NoDate THEN fecha ELSE otra

\* the first format of the list that accepts s
RECURSIVE firstFormat(_, _)
firstFormat(s, formats) ==
  IF formats = <<>> THEN NoDate
  ELSE fecha_o(strptime(s, Head(formats)), firstFormat(s, Tail(formats)))

\* date.today(): the clock of the run
Today == [y |-> 2026, m |-> 11, d |-> 5]

----------------------------------------------------------------------------
(* _rebuild_phase2.py: parsing of single values                            *)

formatos ==
  << [sep |-> "/", ord |-> <<"d", "m", "Y">>],
     [sep |-> "-", ord |-> <<"d", "m", "Y">>],
     [sep |-> "-", ord |-> <<"Y", "m", "d">>],
     [sep |-> "/", ord |-> <<"d", "m", "y">>],
     [sep |-> "-", ord |-> <<"d", "m", "y">>],
     [sep |-> ".", ord |-> <<"d", "m", "Y">>],
     [sep |-> ".", ord |-> <<"d", "m", "y">>],
     [sep |-> "/", ord |-> <<"Y", "m", "d">>],
     [sep |-> "/", ord |-> <<"m", "d", "Y">>] >>

\* the cell values are text: valor is None or the str() of the cell
_parse_date(valor) ==
  IF valor = None THEN NoDate
  ELSE LET texto == strip(valor)
       IN  IF texto = Empty
              \/ lower(texto) \in {<<"n","a","t">>, <<"n","a","n">>, <<"n","o","n","e">>}
           THEN NoDate
           ELSE firstFormat(texto, formatos)

\* int(float(s)) on the age texts of this model: an optional sign, digits
\* and an optional "." with digits after it; <<n>> is the int and <<>>
\* stands for ValueError
int_float(s) ==
  LET t == strip(s)
      signo == t # Empty /\ Head(t) \in {"-", "+"}
      u == IF signo THEN Tail(t) ELSE t
      entero == IF contains(u, ".") THEN SubSeq(u, 1, find(u, ".") - 1) ELSE u
      decimales == IF contains(u, ".") THEN SubSeq(u, find(u, ".") + 1, Len(u)) ELSE Empty
  IN  IF entero # Empty /\ isdigit(entero) /\ (decimales = Empty \/ isdigit(decimales))
      THEN <<(IF signo /\ Head(t) = "-" THEN -1 ELSE 1) * toInt(entero)>>
      ELSE <<>>

\* _parse_edad(valor): <<edad>>, or <<>> for None
_parse_edad(valor) ==
  IF valor = None THEN <<>>
  ELSE IF int_float(valor) # <<>> /\ 0 < int_float(valor)[1] /\ int_float(valor)[1] < 150
  THEN int_float(valor)
  ELSE <<>>

\* (dni, pasaporte) of a document cell
_parse_documento(valor) ==
  IF valor = None THEN [dni |-> None, pasaporte |-> None]
  ELSE
    LET texto == strip(valor)
        limpio == remove(remove(remove(texto, "."), "-"), " ")
        limpio2 == IF endswith(limpio, <<".", "0">>)
                   THEN SubSeq(limpio, 1, Len(limpio) - 2) ELSE limpio
    IN  IF texto = Empty \/ lower(texto) \in {<<"n","a","n">>, <<"n","o","n","e">>}
        THEN [dni |-> None, pasaporte |-> None]
        ELSE IF isdigit(limpio2) /\ Len(limpio2) >= 7 /\ Len(limpio2) <= 8
        THEN [dni |-> limpio2, pasaporte |-> None]
        ELSE IF isalnum(limpio2) /\ Len(limpio2) >= 5 /\ Len(limpio2) <= 15
        THEN [dni |-> None, pasaporte |-> upper(limpio2)]
        ELSE IF isdigit(limpio2)
        THEN (IF Len(limpio2) < 7 THEN [dni |-> None, pasaporte |-> None]
              ELSE [dni |-> SubSeq(limpio2, 1, 8), pasaporte |-> None])
        \* return None, limpio.upper() if limpio else (None, None)
        \* parses as (None, (limpio.upper() if limpio else (None, None))):
        \* an empty limpio puts the tuple (None, None) in the passport slot
        ELSE [dni |-> None,
              pasaporte |-> IF limpio2 # Empty THEN upper(limpio2) ELSE NoneNone]

\* (apellido, nombre) of a combined "APELLIDO Y NOMBRE" cell
_split_apellido_nombre(valor) ==
  LET texto == sanitizar_texto(valor)
  IN  IF valor = None \/ texto = Empty THEN [apellido |-> Empty, nombre |-> Empty]
      ELSE IF contains(texto, ",")
      THEN LET i == find(texto, ",")
           IN  [apellido |-> strip(SubSeq(texto, 1, i - 1)),
                nombre |-> strip(SubSeq(texto, i + 1, Len(texto)))]
      ELSE LET palabras == split(texto)
           IN  IF Len(palabras) = 1 THEN [apellido |-> palabras[1], nombre |-> Empty]
               ELSE IF Len(palabras) = 2
               THEN [apellido |-> palabras[1], nombre |-> palabras[2]]
               ELSE [apellido |-> join(SubSeq(palabras, 1, Len(palabras) - 1)),
                     nombre |-> palabras[Len(palabras)]]

----------------------------------------------------------------------------
(* Rows.  A row (pd.Series) is the sequence of its cells in column order,  *)
(* each [col |-> column label, val |-> text], with the origin tags         *)
(* _hoja_origen and _fila_original the reader attached.                    *)

\* row.get(col): the cell of column col, None when the row has no such column
RECURSIVE cellOf(_, _)
cellOf(cells, col) ==
  IF cells = <<>> THEN None
  ELSE IF Head(cells).col = col THEN Head(cells).val
  ELSE cellOf(Tail(cells), col)

\* results of the row normalisers: a record, None, or a raised exception
Registro(ap, no, dni, pas, fe) ==
  [kind |-> "record", apellido |-> ap, nombre |-> no, dni |-> dni,
   pasaporte |-> pas, fecha_entrada |-> fe, error |-> ""]

Omitida ==
  [kind |-> "none", apellido |-> None, nombre |-> None, dni |-> None,
   pasaporte |-> None, fecha_entrada |-> NoDate, error |-> ""]

Raised(msg) ==
  [kind |-> "error", apellido |-> None, nombre |-> None, dni |-> None,
   pasaporte |-> None, fecha_entrada |-> NoDate, error |-> msg]

----------------------------------------------------------------------------
(* _rebuild_phase2.py: _procesar_fila                                      *)

\* get_val(campo): None for an unmapped field and for an empty (NaN) cell
get_val(row, campo_a_col, campo) ==
  IF campo \notin DOMAIN campo_a_col THEN None
  ELSE LET val == cellOf(row.cells, campo_a_col[campo])
       IN  IF val = Empty THEN None ELSE val

\* "--- Nombre y Apellido ---": the combined column, then the separate ones
nombres_de(partes, ap, no) ==
  [apellido |-> IF truthy(ap) THEN sanitizar_texto(ap) ELSE partes.apellido,
   nombre |-> IF truthy(no) THEN sanitizar_texto(no) ELSE partes.nombre]

nombres_fila(row, campo_a_col) ==
  nombres_de(IF "apellido_nombre" \in DOMAIN campo_a_col
             THEN _split_apellido_nombre(get_val(row, campo_a_col, "apellido_nombre"))
             ELSE [apellido |-> Empty, nombre |-> Empty],
             get_val(row, campo_a_col, "apellido"),
             get_val(row, campo_a_col, "nombre"))

\* "--- Documento ---"
documento_de(doc, pas) ==
  [dni |-> doc.dni, pasaporte |-> IF truthy(pas) THEN pas ELSE doc.pasaporte]

\* the passport of the passport cell, None when the cell is empty
pasaporte_de(val) == IF truthy(val) THEN _parse_documento(val).pasaporte ELSE None

documento_fila(row, campo_a_col) ==
  documento_de(IF "dni" \in DOMAIN campo_a_col
               THEN _parse_documento(get_val(row, campo_a_col, "dni"))
               ELSE [dni |-> None, pasaporte |-> None],
               pasaporte_de(get_val(row, campo_a_col, "pasaporte")))

\* the checks of _procesar_fila, in their order, on the names, the documents
\* and the check-in date of the row; each message starts "Fila <fila_num>: "
registro_de(nom, doc, fecha_entrada) ==
  IF ~truthy(nom.apellido) /\ ~truthy(nom.nombre) THEN Omitida
  ELSE IF ~truthy(doc.dni) /\ ~truthy(doc.pasaporte)
  THEN Raised("sin documento válido (DNI o Pasaporte)")
  ELSE IF fecha_entrada = NoDate
  THEN Raised("fecha de entrada inválida o ausente")
  ELSE Registro(nom.apellido, nom.nombre, doc.dni, doc.pasaporte, fecha_entrada)

\* the age as it would be if only the years were subtracted
edad_de_solo_anios(edad, fecha_nacimiento, fecha_entrada) ==
  IF edad = <<>> /\ fecha_nacimiento # NoDate
  THEN << fecha_o(fecha_entrada, Today).y - fecha_nacimiento.y >>
  ELSE edad

\* "Si no hay edad pero si fecha de nacimiento, calcular edad": edad is what
\* _parse_edad returned, fecha_nacimiento and fecha_entrada what _parse_date
\* returned
edad_de(edad, fecha_nacimiento, fecha_entrada) ==
  IF edad = <<>> /\ fecha_nacimiento # NoDate
  THEN LET ref == fecha_o(fecha_entrada, Today)
       IN  << (ref.y - fecha_nacimiento.y)
              - (IF ref.m < fecha_nacimiento.m
                    \/ (ref.m = fecha_nacimiento.m /\ ref.d < fecha_nacimiento.d)
                 THEN 1 ELSE 0) >>
  ELSE edad

_procesar_fila(row, campo_a_col, fila_num) ==
  registro_de(nombres_fila(row, campo_a_col),
              documento_fila(row, campo_a_col),
              _parse_date(get_val(row, campo_a_col, "fecha_entrada")))

----------------------------------------------------------------------------
(* utils/excel_parser.py: ExcelParser._process_row                         *)

_get_value(row, field) ==
  LET val == cellOf(row.cells, Clave[field])
  IN  IF val # None /\ strip(val) # Empty THEN strip(val) ELSE None

ExcelParser_formats ==
  << [sep |-> "-", ord |-> <<"Y", "m", "d">>],
     [sep |-> "/", ord |-> <<"d", "m", "Y">>],
     [sep |-> "-", ord |-> <<"d", "m", "Y">>],
     [sep |-> ".", ord |-> <<"d", "m", "Y">>],
     [sep |-> "/", ord |-> <<"m", "d", "Y">>],
     [sep |-> "/", ord |-> <<"Y", "m", "d">>] >>

\* pd.to_datetime(value).date(), the generic parser tried last, on the texts
\* of this model: three numbers separated by "/" or by "-" are read month
\* first (dayfirst=False is the default), and day first when the first
\* number is no month; any other text of the model is no date and raises
pandas_mes_primero ==
  << [sep |-> "/", ord |-> <<"m", "d", "Y">>],
     [sep |-> "/", ord |-> <<"m", "d", "y">>],
     [sep |-> "-", ord |-> <<"m", "d", "Y">>],
     [sep |-> "-", ord |-> <<"m", "d", "y">>] >>

pandas_dia_primero ==
  << [sep |-> "/", ord |-> <<"d", "m", "Y">>],
     [sep |-> "/", ord |-> <<"d", "m", "y">>],
     [sep |-> "-", ord |-> <<"d", "m", "Y">>],
     [sep |-> "-", ord |-> <<"d", "m", "y">>] >>

pd_to_datetime(value) ==
  fecha_o(firstFormat(strip(value), pandas_mes_primero),
          firstFormat(strip(value), pandas_dia_primero))

ExcelParser_parse_date(value) ==
  IF ~truthy(value) THEN NoDate
  ELSE fecha_o(firstFormat(strip(value), ExcelParser_formats), pd_to_datetime(value))

\* texto.split(None, 1): the first word and the rest of the text
split1(s) ==
  LET t == lstrip(s)
      n == wordLen(t)
      resto == lstrip(SubSeq(t, n + 1, Len(t)))
  IN  IF t = Empty THEN <<>>
      ELSE IF resto = Empty THEN <<SubSeq(t, 1, n)>>
      ELSE <<SubSeq(t, 1, n), resto>>

\* the combined "APELLIDO Y NOMBRE" cell: data["apellido"], data["nombre"],
\* None standing for a key that is not in data
\* texto.split(",", 1), sanitized
partes_coma(partes) ==
  [apellido |-> sanitizar_texto(strip(partes[1])),
   nombre |-> IF strip(partes[2]) # Empty THEN sanitizar_texto(strip(partes[2])) ELSE Empty]

\* texto.split(None, 1), sanitized
partes_espacio(partes) ==
  [apellido |-> IF partes # <<>> THEN sanitizar_texto(partes[1]) ELSE Empty,
   nombre |-> IF Len(partes) > 1 THEN sanitizar_texto(partes[2]) ELSE Empty]

combinado_de(apellido_nombre_val) ==
  IF ~truthy(apellido_nombre_val) THEN [apellido |-> None, nombre |-> None]
  ELSE IF contains(apellido_nombre_val, ",")
  THEN partes_coma(<<SubSeq(apellido_nombre_val, 1, find(apellido_nombre_val, ",") - 1),
                     SubSeq(apellido_nombre_val, find(apellido_nombre_val, ",") + 1,
                            Len(apellido_nombre_val))>>)
  ELSE partes_espacio(split1(apellido_nombre_val))

combinado_row(row) == combinado_de(_get_value(row, "apellido_nombre"))

\* the text-field loop for apellido and nombre: a value taken from the
\* combined cell is not overwritten
campo_texto(combinado, val) ==
  IF truthy(combinado) THEN combinado
  ELSE IF val # None THEN sanitizar_texto(val)
  ELSE combinado

nombres_con(combinado, apellido, nombre) ==
  [apellido |-> campo_texto(combinado.apellido, apellido),
   nombre |-> campo_texto(combinado.nombre, nombre)]

nombres_row(row) ==
  nombres_con(combinado_row(row), _get_value(row, "apellido"), _get_value(row, "nombre"))

\* dni.strip().replace(".", "").replace("-", "").replace(" ", ""), less ".0"
limpiar_doc(v) ==
  LET cleaned == remove(remove(remove(strip(v), "."), "-"), " ")
  IN  IF endswith(cleaned, <<".", "0">>)
      THEN SubSeq(cleaned, 1, Len(cleaned) - 2) ELSE cleaned

esDni(c) == isdigit(c) /\ Len(c) >= 7 /\ Len(c) <= 8

esPasaporte(c) == isalnum(c) /\ Len(c) >= 5 /\ Len(c) <= 15

\* "Documentos — detectar tipo automáticamente"
\* cleaned: the cleaned document cell; cleaned_p: the cleaned passport cell
documentos_de(dni, pasaporte, cleaned, cleaned_p) ==
  IF truthy(dni) /\ ~truthy(pasaporte)
  THEN (IF esDni(cleaned) THEN [dni |-> cleaned, pasaporte |-> None]
        ELSE IF esPasaporte(cleaned) THEN [dni |-> None, pasaporte |-> upper(cleaned)]
        ELSE [dni |-> None, pasaporte |-> None])
  ELSE [dni |-> IF truthy(dni) /\ esDni(cleaned) THEN cleaned ELSE None,
        pasaporte |-> IF truthy(pasaporte) /\ esPasaporte(cleaned_p)
                      THEN cleaned_p ELSE None]

documentos_row(row) ==
  documentos_de(_get_value(row, "dni"), _get_value(row, "pasaporte"),
                limpiar_doc(_get_value(row, "dni")),
                remove(upper(strip(_get_value(row, "pasaporte"))), " "))

\* "Fallback": the first cell, in column order, that cleans to 7-8 digits
RECURSIVE fallback_dni(_)
fallback_dni(cells) ==
  IF cells = <<>> THEN None
  ELSE IF Head(cells).col # Empty /\ Head(Head(cells).col) = "_"
  THEN fallback_dni(Tail(cells))
  ELSE IF esDni(limpiar_doc(Head(cells).val)) THEN limpiar_doc(Head(cells).val)
  ELSE fallback_dni(Tail(cells))

con_fallback(doc, cells) ==
  IF doc.dni = None /\ doc.pasaporte = None
  THEN [dni |-> fallback_dni(cells), pasaporte |-> None]
  ELSE doc

documento_row(row) == con_fallback(documentos_row(row), row.cells)

\* the checks of _process_row, in their order, on the names, the documents
\* and the check-in date of the row; None for a name stands for a key that
\* is not in data
data_de(nom, doc, fecha) ==
  IF nom.apellido = None /\ nom.nombre = None THEN Omitida
  ELSE IF doc.dni = None /\ doc.pasaporte = None
  THEN (IF nom.apellido # None /\ nom.nombre # None
        THEN Raised("Sin documento válido (DNI o Pasaporte)")
        ELSE Omitida)
  ELSE IF ~truthy(nom.apellido) THEN Raised("Campo obligatorio 'apellido' vacío")
  ELSE IF ~truthy(nom.nombre) THEN Raised("Campo obligatorio 'nombre' vacío")
  ELSE Registro(nom.apellido, nom.nombre, doc.dni, doc.pasaporte,
                IF fecha # NoDate THEN fecha ELSE Today)

_process_row(row) ==
  data_de(nombres_row(row), documento_row(row),
          ExcelParser_parse_date(_get_value(row, "fecha_entrada")))

----------------------------------------------------------------------------
(* Reading the workbook.  A workbook is the sequence of its sheets, each   *)
(* [nombre |-> sheet name, columnas |-> the header cells, filas |-> the    *)
(* data rows, each the sequence of its cells]; a DataFrame is              *)
(* [columns |-> labels, rows |-> rows as described above].                 *)

MAX_IMPORT_ROWS == 10000

\* the settings of the repository, and settings with a maximum that a
\* workbook of a few rows exceeds
MaxImportRowsCorto == 1

SettingsRepo == [MAX_IMPORT_ROWS |-> MAX_IMPORT_ROWS]

Settings == {SettingsRepo, [MAX_IMPORT_ROWS |-> MaxImportRowsCorto]}

\* the rows of a sheet, labelled with the columns
filas_con_columnas(columns, filas, hoja) ==
  [n \in DOMAIN filas |->
     [cells |-> [i \in DOMAIN columns |-> [col |-> columns[i], val |-> filas[n][i]]],
      hoja |-> hoja,
      fila |-> n + 1]]

\* _rebuild_phase2.py: leer_archivo, which reads the first sheet; an empty
\* cell is NaN, and dropna(how="all").reset_index(drop=True) renumbers the
\* rows that are left
leer_archivo(file, max_import_rows) ==
  LET sheet == file[1]
      con_datos == SelectSeq(sheet.filas, LAMBDA f : \E i \in DOMAIN f : f[i] # Empty)
  IN  IF sheet.filas = <<>>
      THEN [error |-> "El archivo Excel está vacío",
            df |-> [columns |-> <<>>, rows |-> <<>>]]
      ELSE IF Len(sheet.filas) > max_import_rows
      THEN [error |-> "El archivo excede el máximo de filas",
            df |-> [columns |-> <<>>, rows |-> <<>>]]
      ELSE [error |-> "",
            df |-> [columns |-> sheet.columnas,
                    rows |-> filas_con_columnas(sheet.columnas, con_datos, Empty)]]

\* c.startswith("_")
startswith_guion(c) == c # Empty /\ Head(c) = "_"

\* utils/excel_parser.py: the body of the loop over the sheets in
\* _read_file, for a sheet that is not empty: clean the column names, drop
\* the rows without text, map and rename the columns, tag the rows with the
\* sheet and with range(2, len(sheet_df) + 2)
columnas_limpias(sheet) ==
  [i \in DOMAIN sheet.columnas |-> col_clean(sheet.columnas[i])]

filas_con_texto(sheet) ==
  SelectSeq(sheet.filas, LAMBDA f : \E i \in DOMAIN f : strip(f[i]) # Empty)

\* sheet_df.rename(columns=sheet_map) and the two tags
hoja_renombrada(sheet, sheet_map) ==
  [columns |-> [i \in DOMAIN sheet.columnas |->
                  IF \E m \in Range(sheet_map) : m.col = columnas_limpias(sheet)[i]
                  THEN Clave[(CHOOSE m \in Range(sheet_map) :
                                m.col = columnas_limpias(sheet)[i]).campo]
                  ELSE columnas_limpias(sheet)[i]],
   filas |-> filas_con_texto(sheet),
   hoja |-> sheet.nombre,
   sheet_map |-> sheet_map]

hoja_frame(sheet) ==
  hoja_renombrada(sheet,
    _auto_map_columns(SelectSeq(columnas_limpias(sheet), LAMBDA c : ~startswith_guion(c))))

\* the frames of the sheets that have rows with text ("if sheet_df.empty:
\* continue", before and after the rows without text are dropped)
RECURSIVE hojas_frames(_)
hojas_frames(sheets) ==
  IF sheets = <<>> THEN <<>>
  ELSE IF Head(sheets).filas = <<>> \/ filas_con_texto(Head(sheets)) = <<>>
  THEN hojas_frames(Tail(sheets))
  ELSE <<hoja_frame(Head(sheets))>> \o hojas_frames(Tail(sheets))

\* pd.concat(frames, ignore_index=True, sort=False).fillna(""): the columns
\* in order of first appearance, a row of another frame empty under them
RECURSIVE concat_columns(_, _)
concat_columns(frames, columns) ==
  IF frames = <<>> THEN columns
  ELSE concat_columns(Tail(frames),
         columns \o SelectSeq(Head(frames).columns, LAMBDA c : c \notin Range(columns)))

\* the rows of a frame under the columns of the whole
filas_de_frame(f, columns) ==
  [n \in DOMAIN f.filas |->
     [cells |-> [i \in DOMAIN columns |->
                   [col |-> columns[i],
                    val |-> IF \E k \in DOMAIN f.columns : f.columns[k] = columns[i]
                            THEN f.filas[n][CHOOSE k \in DOMAIN f.columns :
                                              f.columns[k] = columns[i]]
                            ELSE Empty]],
      hoja |-> f.hoja,
      fila |-> n + 1]]

RECURSIVE concat_rows(_, _)
concat_rows(frames, columns) ==
  IF frames = <<>> THEN <<>>
  ELSE filas_de_frame(Head(frames), columns) \o concat_rows(Tail(frames), columns)

\* all_mappings.update(sheet_map), sheet after sheet
RECURSIVE all_mappings(_)
all_mappings(frames) ==
  IF frames = <<>> THEN <<>>
  ELSE LET resto == all_mappings(Tail(frames))
       IN  SelectSeq(Head(frames).sheet_map,
                     LAMBDA m : \A k \in DOMAIN resto : resto[k].col # m.col) \o resto

concat(frames) ==
  [df |-> [columns |-> concat_columns(frames, <<>>),
           rows |-> concat_rows(frames, concat_columns(frames, <<>>))],
   _column_map |-> all_mappings(frames)]

_read_file(file) == concat(hojas_frames(file))

----------------------------------------------------------------------------
(* Persons and stays                                                       *)

\* limpiar_dni of utils.validators, as models/persona.py imports it
limpiar_dni(dni) ==
  IF ~truthy(dni) THEN Empty
  ELSE LET limpio == remove(remove(remove(strip(dni), "."), "-"), " ")
       IN  IF endswith(limpio, <<".", "0">>)
           THEN SubSeq(limpio, 1, Len(limpio) - 2) ELSE limpio

\* models/persona.py: PersonaDAO.buscar_por_documento on the table of
\* persons, a person's id being its position; 0 stands for None
buscar_por_documento(personas_tabla, dni, pasaporte) ==
  LET con(campo, v) == {i \in DOMAIN personas_tabla : personas_tabla[i][campo] = strip(v)}
      primera(S) == CHOOSE i \in S : \A j \in S : i <= j
  IN  IF truthy(dni) /\ con("dni", dni) # {} THEN primera(con("dni", dni))
      ELSE IF truthy(pasaporte) /\ con("pasaporte", pasaporte) # {}
      THEN primera(con("pasaporte", pasaporte))
      ELSE 0

\* PersonaSchema: the value a field validator returns
validar_formato_dni(v) ==
  IF v = None \/ strip(v) = Empty THEN None ELSE limpiar_dni(v)

validar_formato_pasaporte(v) ==
  IF v = None \/ strip(v) = Empty THEN None ELSE upper(strip(v))

\* PersonaSchema(**datos) raises no ValidationError; nacionalidad and
\* procedencia are the defaults of _procesar_fila, which pass
PersonaSchema_valida(datos) ==
  /\ Len(datos.apellido) >= 1
  /\ Len(datos.nombre) >= 1
  /\ datos.dni # None => Len(datos.dni) <= 8
  /\ datos.pasaporte # None => Len(datos.pasaporte) <= 15
  /\ validar_formato_dni(datos.dni) # None =>
       /\ isdigit(validar_formato_dni(datos.dni))
       /\ Len(validar_formato_dni(datos.dni)) >= 7
       /\ Len(validar_formato_dni(datos.dni)) <= 8
  /\ validar_formato_pasaporte(datos.pasaporte) # None =>
       /\ isalnum(validar_formato_pasaporte(datos.pasaporte))
       /\ Len(validar_formato_pasaporte(datos.pasaporte)) >= 5
       /\ Len(validar_formato_pasaporte(datos.pasaporte)) <= 15
  /\ \/ truthy(validar_formato_dni(datos.dni))
     \/ truthy(validar_formato_pasaporte(datos.pasaporte))

\* schema.model_dump(), the row PersonaDAO.crear inserts
PersonaSchema_dump(datos) ==
  [apellido |-> sanitizar_texto(datos.apellido),
   nombre |-> sanitizar_texto(datos.nombre),
   dni |-> validar_formato_dni(datos.dni),
   pasaporte |-> validar_formato_pasaporte(datos.pasaporte)]

----------------------------------------------------------------------------
(* State                                                                   *)

VARIABLES
  row,            \* the row handed to the row normalisers
  data,           \* what ExcelParser._process_row made of it
  registro,       \* what _procesar_fila made of it
  valor,          \* the value handed to a function that takes one value
  salida,         \* what the function made of it
  archivo,        \* the workbook on disk
  settings,       \* config.settings, as far as the import reads it
  mapeo_override, \* importar's argument; <<>> for None
  pc,             \* where the run of parse or of importar stands
  df,             \* the DataFrame read
  idx,            \* position of the running loop
  _column_map,    \* ExcelParser._column_map
  total_rows,     \* ExcelParser.parse
  valid_rows,     \* ExcelParser.parse
  errors,
  duplicates,
  skipped,
  seen_docs,
  mapeo,          \* ImportController.importar
  registros,
  errores,
  stats,
  excepcion,      \* the exception importar raised, if any
  personas,       \* table personas
  estadias,       \* table estadias
  objetos,        \* the dicts that ImportView holds, each under its identity
  _all_data,      \* ImportView._all_data: the identities of its dicts
  _preview_data,  \* ImportView._preview_data, likewise
  importado,      \* the dicts ImportView._import_thread handed to crear
  usuarios,       \* table usuarios, by username
  ahora,          \* datetime.now(), in minutes
  _session,       \* AuthController._session; <<>> for None
  intento         \* the last call of AuthController.login and how it ended

\* the variables of the runs on one row and on one value
rowVars == <<row, data, registro, valor, salida>>

parseVars ==
  <<_column_map, total_rows, valid_rows, errors, duplicates, skipped, seen_docs>>

importarVars == <<mapeo, registros, errores, stats, excepcion, personas, estadias>>

viewVars == <<objetos, _all_data, _preview_data, importado>>

authVars == <<usuarios, ahora, _session, intento>>

vars ==
  <<row, data, registro, valor, salida, archivo, settings, mapeo_override, pc,
    df, idx, _column_map, total_rows,
    valid_rows, errors, duplicates, skipped, seen_docs, mapeo, registros,
    errores, stats, excepcion, personas, estadias,
    objetos, _all_data, _preview_data, importado,
    usuarios, ahora, _session, intento>>

Pendiente ==
  [kind |-> "pending", apellido |-> None, nombre |-> None, dni |-> None,
   pasaporte |-> None, fecha_entrada |-> NoDate, error |-> ""]

SinExcepcion == [tipo |-> "", missing |-> <<>>]

\* no function has run on a value
SinSalida == [op |-> "", res |-> <<>>]

SinValor ==
  /\ valor = <<>>
  /\ salida = SinSalida

\* nothing read, nothing collected, an empty database
SinResultados ==
  /\ df = [columns |-> <<>>, rows |-> <<>>]
  /\ idx = 1
  /\ _column_map = <<>>
  /\ total_rows = 0
  /\ valid_rows = <<>>
  /\ errors = <<>>
  /\ duplicates = <<>>
  /\ skipped = 0
  /\ seen_docs = {}
  /\ mapeo = <<>>
  /\ registros = <<>>
  /\ errores = <<>>
  /\ stats = [total_filas |-> 0, personas_creadas |-> 0, personas_existentes |-> 0,
              estadias_creadas |-> 0, errores |-> <<>>]
  /\ excepcion = SinExcepcion
  /\ personas = <<>>
  /\ estadias = <<>>
  /\ objetos = <<>>
  /\ _all_data = <<>>
  /\ _preview_data = <<>>
  /\ importado = <<>>

\* no login was tried
SinIntento == [username |-> "", clave_ok |-> FALSE, resultado |-> ""]

\* the login stands idle
SinSesion ==
  /\ usuarios = <<>>
  /\ ahora = 0
  /\ _session = <<>>
  /\ intento = SinIntento

----------------------------------------------------------------------------
(* One row through both row normalisers                                    *)

CeldasApellidoNombre ==
  { <<>>,
    <<"G","a","r","c","í","a"," ","J","u","a","n"," ","P","a","b","l","o">>,
    <<"G","a","r","c","í","a",","," ","J","u","a","n"," ","P","a","b","l","o">>,
    <<"P","é","r","e","z">>,
    <<",">>,
    <<"D","e"," ","l","a"," ","C","r","u","z"," "," ","A","n","a">> }

CeldasApellido ==
  { <<>>,
    <<"L","ó","p","e","z">> }

CeldasNombre ==
  { <<>>,
    <<"A","n","a">> }

CeldasDni ==
  { <<>>,
    <<"3","5",".","1","2","3",".","4","5","6">>,
    <<"a","a","1","2","3","4","5","6","7">>,
    <<"A","B","1","2">>,
    <<"1","2","3","4","5","6","7","8",".","0">>,
    <<"1","2","3","4","5","6","7","8","9","0","1","2","3","4","5","6">>,
    <<"-">> }

CeldasPasaporte ==
  { <<>>,
    <<"a","a","1","2","3","4","5","6","7">> }

CeldasFechaEntrada ==
  { <<>>,
    <<"1","0","/","0","5","/","2","0","2","4">>,
    <<"x","x">> }

CeldasOtro ==
  { <<>>,
    <<"1","2","3","4","5","6","7">> }

\* a row of a sheet whose columns are, in this order, the combined name,
\* surname, given name, document, passport, check-in date and one column
\* that no field is mapped to
FilaDe(an, ap, no, dni, pas, fe, otro) ==
  [cells |-> << [col |-> Clave["apellido_nombre"], val |-> an],
                [col |-> Clave["apellido"], val |-> ap],
                [col |-> Clave["nombre"], val |-> no],
                [col |-> Clave["dni"], val |-> dni],
                [col |-> Clave["pasaporte"], val |-> pas],
                [col |-> Clave["fecha_entrada"], val |-> fe],
                [col |-> <<"o","b","s">>, val |-> otro] >>,
   hoja |-> <<"1">>,
   fila |-> 2]

\* campo_a_col of that sheet: each mapped field under its own column
CampoACol ==
  [c \in {"apellido_nombre", "apellido", "nombre", "dni", "pasaporte",
          "fecha_entrada"} |-> Clave[c]]

InitRow ==
  /\ row \in { FilaDe(an, ap, no, dni, pas, fe, otro) :
                 an \in CeldasApellidoNombre, ap \in CeldasApellido,
                 no \in CeldasNombre, dni \in CeldasDni,
                 pas \in CeldasPasaporte, fe \in CeldasFechaEntrada,
                 otro \in CeldasOtro }
  /\ data = Pendiente
  /\ registro = Pendiente
  /\ SinValor
  /\ archivo = <<>>
  /\ settings = SettingsRepo
  /\ mapeo_override = <<>>
  /\ pc = "fila"
  /\ SinResultados
  /\ SinSesion

ProcessRow ==
  /\ pc = "fila"
  /\ data = Pendiente
  /\ data' = _process_row(row)
  /\ UNCHANGED <<row, registro, valor, salida, archivo, settings,
                 mapeo_override, pc, df, idx>>
  /\ UNCHANGED <<parseVars, importarVars, viewVars, authVars>>

ProcesarFila ==
  /\ pc = "fila"
  /\ registro = Pendiente
  /\ registro' = _procesar_fila(row, CampoACol, row.fila)
  /\ UNCHANGED <<row, data, valor, salida, archivo, settings,
                 mapeo_override, pc, df, idx>>
  /\ UNCHANGED <<parseVars, importarVars, viewVars, authVars>>

NextRow == ProcessRow \/ ProcesarFila

SpecRow == InitRow /\ [][NextRow]_vars

----------------------------------------------------------------------------
(* The workbooks of the runs                                               *)

CabeceraSeparada ==
  << [titulo |-> <<"A","p","e","l","l","i","d","o">>, dato |-> "ap"],
     [titulo |-> <<"N","o","m","b","r","e">>, dato |-> "no"],
     [titulo |-> <<"D","N","I">>, dato |-> "doc"],
     [titulo |-> <<"F","e","c","h","a"," ","E","n","t","r","a","d","a">>, dato |-> "fe"] >>

CabeceraCombinada ==
  << [titulo |-> <<"N","°">>, dato |-> "nro"],
     [titulo |-> <<"A","p","e","l","l","i","d","o"," ","y"," ","N","o","m","b","r","e">>, dato |-> "an"],
     [titulo |-> <<"D","o","c","u","m","e","n","t","o">>, dato |-> "doc"],
     [titulo |-> <<"I","n","g","r","e","s","o">>, dato |-> "fe"],
     [titulo |-> <<"O","b","s">>, dato |-> "obs"] >>

CabeceraConPasaporte ==
  << [titulo |-> <<"A","p","e","l","l","i","d","o">>, dato |-> "ap"],
     [titulo |-> <<"N","o","m","b","r","e">>, dato |-> "no"],
     [titulo |-> <<"D","N","I">>, dato |-> "doc"],
     [titulo |-> <<"P","a","s","a","p","o","r","t","e">>, dato |-> "pas"],
     [titulo |-> <<"F","e","c","h","a"," ","E","n","t","r","a","d","a">>, dato |-> "fe"] >>

CabeceraSinFecha ==
  << [titulo |-> <<"A","p","e","l","l","i","d","o">>, dato |-> "ap"],
     [titulo |-> <<"N","o","m","b","r","e">>, dato |-> "no"],
     [titulo |-> <<"D","N","I">>, dato |-> "doc"] >>

FilaValida ==
  [ nro |-> <<"1">>,
    an |-> <<"L","ó","p","e","z",","," ","A","n","a">>,
    ap |-> <<"L","ó","p","e","z">>,
    no |-> <<"A","n","a">>,
    doc |-> <<"3","5",".","1","2","3",".","4","5","6">>,
    fe |-> <<"1","0","/","0","5","/","2","0","2","4">>,
    pas |-> <<>>,
    obs |-> <<>> ]

FilaRepetida ==
  [ nro |-> <<"2">>,
    an |-> <<"P","é","r","e","z",","," ","J","u","a","n">>,
    ap |-> <<"P","é","r","e","z">>,
    no |-> <<"J","u","a","n">>,
    doc |-> <<"3","5","1","2","3","4","5","6">>,
    fe |-> <<"1","1","/","0","5","/","2","0","2","4">>,
    pas |-> <<>>,
    obs |-> <<>> ]

FilaSinDocumento ==
  [ nro |-> <<"3">>,
    an |-> <<"D","í","a","z",","," ","E","v","a">>,
    ap |-> <<"D","í","a","z">>,
    no |-> <<"E","v","a">>,
    doc |-> <<>>,
    fe |-> <<"1","0","/","0","5","/","2","0","2","4">>,
    pas |-> <<>>,
    obs |-> <<>> ]

FilaVacia ==
  [ nro |-> <<>>,
    an |-> <<>>,
    ap |-> <<>>,
    no |-> <<>>,
    doc |-> <<>>,
    fe |-> <<>>,
    pas |-> <<>>,
    obs |-> <<>> ]

FilaSinNombres ==
  [ nro |-> <<"4">>,
    an |-> <<>>,
    ap |-> <<>>,
    no |-> <<>>,
    doc |-> <<"1","2","3","4","5","6","7">>,
    fe |-> <<"1","0","/","0","5","/","2","0","2","4">>,
    pas |-> <<>>,
    obs |-> <<>> ]

\* a row identified by a passport alone, whose passport is the text of the
\* DNI of FilaRepetida
FilaPasaporte ==
  [ nro |-> <<"5">>,
    an |-> <<"R","u","i","z",","," ","L","u","z">>,
    ap |-> <<"R","u","i","z">>,
    no |-> <<"L","u","z">>,
    doc |-> <<>>,
    fe |-> <<"1","2","/","0","5","/","2","0","2","4">>,
    pas |-> <<"3","5","1","2","3","4","5","6">>,
    obs |-> <<>> ]

Cabeceras ==
  {CabeceraSeparada, CabeceraCombinada, CabeceraSinFecha, CabeceraConPasaporte}

Plantillas ==
  {FilaValida, FilaRepetida, FilaSinDocumento, FilaVacia, FilaSinNombres,
   FilaPasaporte}

\* names of the sheets of the workbook
Hojas == << <<"1">>, <<"2">> >>

\* most data rows in a workbook
MaxFilas == 2

\* the sheets with n data rows; a sheet without rows is an empty sheet
HojasCon(nombre, n) ==
  IF n = 0 THEN {[nombre |-> nombre, columnas |-> <<>>, filas |-> <<>>]}
  ELSE {[nombre |-> nombre,
         columnas |-> [i \in DOMAIN cab |-> cab[i].titulo],
         filas |-> [k \in 1..n |-> [i \in DOMAIN cab |-> ps[k][cab[i].dato]]]] :
          cab \in Cabeceras, ps \in [1..n -> Plantillas]}

Archivos ==
  UNION {{<<h1, h2>> : h1 \in HojasCon(Hojas[1], n[1]), h2 \in HojasCon(Hojas[2], n[2])} :
           n \in {m \in (0..MaxFilas) \X (0..MaxFilas) : m[1] + m[2] <= MaxFilas}}

FilaOciosa == FilaDe(Empty, Empty, Empty, Empty, Empty, Empty, Empty)

Init ==
  /\ archivo \in Archivos
  /\ settings \in Settings
  /\ mapeo_override = <<>>
  /\ pc = "inicio"
  /\ SinResultados
  /\ SinSesion
  /\ row = FilaOciosa
  /\ data = Pendiente
  /\ registro = Pendiente
  /\ SinValor

----------------------------------------------------------------------------
(* utils/excel_parser.py: ExcelParser.parse                                *)

\* the empty-file return and the row limit, on what _read_file returned
parse_df(leido) ==
  /\ _column_map' = leido._column_map
  /\ total_rows' = Len(leido.df.rows)
  /\ df' = IF Len(leido.df.rows) > settings.MAX_IMPORT_ROWS
           THEN [leido.df EXCEPT !.rows = SubSeq(@, 1, settings.MAX_IMPORT_ROWS)]
           ELSE leido.df
  /\ pc' = IF leido.df.rows = <<>> THEN "parse_fin" ELSE "parse_filas"

\* df = self._read_file()
Parse_read_file ==
  /\ pc = "inicio"
  /\ parse_df(_read_file(archivo))
  /\ idx' = 1
  /\ UNCHANGED <<valid_rows, errors, duplicates, skipped, seen_docs>>
  /\ UNCHANGED <<rowVars, viewVars, authVars, archivo, settings, mapeo_override, importarVars>>

\* row_label = f"Hoja '{hoja}' fila {fila}" if hoja else f"Fila {fila}":
\* the label as the pair it is made of
row_label(hoja, fila) == [hoja |-> hoja, fila |-> fila]

\* data.get("dni") or data.get("pasaporte") or ""
doc_key(d) ==
  IF truthy(d.dni) THEN d.dni ELSE IF truthy(d.pasaporte) THEN d.pasaporte ELSE Empty

\* data["_hoja_origen"] = hoja
con_hoja(d, hoja) == IF hoja # Empty THEN ("_hoja_origen" :> hoja) @@ d ELSE d

\* the body of the loop as it would be if an error discarded what the parse
\* had collected
parse_row_descarta(hoja, etiqueta, d) ==
  IF d.kind = "error"
  THEN /\ errors' = Append(errors, [row |-> etiqueta, error |-> d.error])
       /\ valid_rows' = <<>>
       /\ UNCHANGED <<duplicates, skipped, seen_docs>>
  ELSE IF d.kind = "none"
  THEN /\ skipped' = skipped + 1
       /\ UNCHANGED <<valid_rows, errors, duplicates, seen_docs>>
  ELSE IF doc_key(d) # Empty /\ doc_key(d) \in seen_docs
  THEN /\ duplicates' = Append(duplicates, ("row" :> etiqueta) @@ con_hoja(d, hoja))
       /\ UNCHANGED <<valid_rows, errors, skipped, seen_docs>>
  ELSE /\ seen_docs' = IF doc_key(d) # Empty
                       THEN seen_docs \cup {doc_key(d)} ELSE seen_docs
       /\ valid_rows' = Append(valid_rows, con_hoja(d, hoja))
       /\ UNCHANGED <<errors, duplicates, skipped>>

\* the body of the loop for the row labelled etiqueta of sheet hoja, d being
\* what _process_row returned or raised
parse_row(hoja, etiqueta, d) ==
  IF d.kind = "error"
  THEN /\ errors' = Append(errors, [row |-> etiqueta, error |-> d.error])
       /\ UNCHANGED <<valid_rows, duplicates, skipped, seen_docs>>
  ELSE IF d.kind = "none"
  THEN /\ skipped' = skipped + 1
       /\ UNCHANGED <<valid_rows, errors, duplicates, seen_docs>>
  ELSE IF doc_key(d) # Empty /\ doc_key(d) \in seen_docs
  THEN /\ duplicates' = Append(duplicates, ("row" :> etiqueta) @@ con_hoja(d, hoja))
       /\ UNCHANGED <<valid_rows, errors, skipped, seen_docs>>
  ELSE /\ seen_docs' = IF doc_key(d) # Empty
                       THEN seen_docs \cup {doc_key(d)} ELSE seen_docs
       /\ valid_rows' = Append(valid_rows, con_hoja(d, hoja))
       /\ UNCHANGED <<errors, duplicates, skipped>>

\* one turn of "for idx, row in df.iterrows()"
Parse_iterrows ==
  /\ pc = "parse_filas"
  /\ idx <= Len(df.rows)
  /\ parse_row(df.rows[idx].hoja,
               row_label(df.rows[idx].hoja, df.rows[idx].fila),
               _process_row(df.rows[idx]))
  /\ idx' = idx + 1
  /\ UNCHANGED <<rowVars, viewVars, authVars, archivo, settings, mapeo_override, pc, df,
                 _column_map, total_rows, importarVars>>

\* the loop is over: the result is returned
Parse_return ==
  /\ pc = "parse_filas"
  /\ idx > Len(df.rows)
  /\ pc' = "parse_fin"
  /\ UNCHANGED <<rowVars, viewVars, authVars, archivo, settings, mapeo_override, df, idx,
                 parseVars, importarVars>>

----------------------------------------------------------------------------
(* controllers/import_controller.py: ImportController.importar             *)

\* "1. Leer archivo": a ValueError of leer_archivo leaves as ImportFileError
Importar_leer ==
  /\ pc = "inicio"
  /\ LET leido == leer_archivo(archivo, settings.MAX_IMPORT_ROWS)
     IN  IF leido.error # ""
         THEN /\ excepcion' = [tipo |-> "ImportFileError", missing |-> <<>>]
              /\ pc' = "abortado"
              /\ UNCHANGED <<df, stats>>
         ELSE /\ df' = leido.df
              /\ stats' = [stats EXCEPT !.total_filas = Len(leido.df.rows)]
              /\ pc' = "mapeo"
              /\ UNCHANGED excepcion
  /\ UNCHANGED <<rowVars, viewVars, authVars, archivo, settings, mapeo_override, idx, parseVars>>
  /\ UNCHANGED <<mapeo, registros, errores, personas, estadias>>

\* "2. Detectar mapeo": mapeo_override or detectar_mapeo(df), then the
\* required-fields check
Importar_mapeo ==
  /\ pc = "mapeo"
  /\ LET m == IF mapeo_override # <<>> THEN mapeo_override ELSE detectar_mapeo(df.columns)
         faltantes == obtener_columnas_faltantes(m)
     IN  /\ mapeo' = m
         /\ IF faltantes # <<>>
            THEN /\ excepcion' = [tipo |-> "MissingColumnsError", missing |-> faltantes]
                 /\ pc' = "abortado"
            ELSE /\ pc' = "procesar"
                 /\ UNCHANGED excepcion
  /\ idx' = 1
  /\ UNCHANGED <<rowVars, viewVars, authVars, archivo, settings, mapeo_override, df, parseVars>>
  /\ UNCHANGED <<registros, errores, stats, personas, estadias>>

\* the body of the loop of procesar_dataframe for row number fila_num, r
\* being what _procesar_fila returned or raised
procesar_row(fila_num, r) ==
  IF r.kind = "error"
  THEN /\ errores' = Append(errores, [fila |-> fila_num, errores |-> <<r.error>>])
       /\ UNCHANGED registros
  ELSE IF r.kind = "none"
  THEN UNCHANGED <<registros, errores>>
  ELSE /\ registros' = Append(registros, r)
       /\ UNCHANGED errores

\* "3. Procesar filas": one turn of the loop of procesar_dataframe, for the
\* row at index idx - 1 of the DataFrame (fila_num = idx + 2 in the code)
Importar_procesar_fila ==
  /\ pc = "procesar"
  /\ idx <= Len(df.rows)
  /\ procesar_row((idx - 1) + 2,
                  _procesar_fila(df.rows[idx], invertir_mapeo(mapeo), (idx - 1) + 2))
  /\ idx' = idx + 1
  /\ UNCHANGED <<rowVars, viewVars, authVars, archivo, settings, mapeo_override, pc, df,
                 parseVars>>
  /\ UNCHANGED <<mapeo, stats, excepcion, personas, estadias>>

\* procesar_dataframe returns: stats["errores"].extend(errores_parse)
Importar_procesado ==
  /\ pc = "procesar"
  /\ idx > Len(df.rows)
  /\ stats' = [stats EXCEPT !.errores = @ \o errores]
  /\ pc' = "insertar"
  /\ idx' = 1
  /\ UNCHANGED <<rowVars, viewVars, authVars, archivo, settings, mapeo_override, df, parseVars>>
  /\ UNCHANGED <<mapeo, registros, errores, excepcion, personas, estadias>>

\* the body of the loop over registros as it would be if the exception of a
\* record were dropped instead of recorded
insertar_registro_sin_error(reg, i, bd_ok) ==
  LET existente == buscar_por_documento(personas, reg.dni, reg.pasaporte)
      \* pasaporte.strip() on the tuple (None, None)
      sin_strip == reg.pasaporte = NoneNone
      error(msg) == [fila |-> i + 2, errores |-> <<msg>>]
      \* PersonaSchema(**datos) and, after a ValidationError,
      \* PersonaSchema(**datos_min) with the same names and documents
      valida == PersonaSchema_valida(reg)
      persona_id == IF existente # 0 THEN existente ELSE Len(personas) + 1
  IN  IF existente = 0 /\ sin_strip
      THEN /\ stats' = stats
           /\ UNCHANGED <<personas, estadias>>
      ELSE IF existente = 0 /\ ~valida
      THEN /\ stats' = stats
           /\ UNCHANGED <<personas, estadias>>
      ELSE /\ personas' = IF existente # 0 THEN personas
                          ELSE Append(personas, PersonaSchema_dump(reg))
           /\ IF bd_ok
              THEN /\ estadias' = Append(estadias, [persona_id |-> persona_id,
                                                    fecha_entrada |-> reg.fecha_entrada])
                   /\ stats' = [stats EXCEPT !.estadias_creadas = @ + 1]
              ELSE /\ stats' = stats
                   /\ UNCHANGED estadias

\* "4. Insertar en BD": the body of the loop for the record reg at index i.
\* The person is found or created, then the stay is created; an exception
\* at either step is caught and recorded, and a person already created
\* stays created.  bd_ok: whether the insert of the stay succeeds in the
\* database.
insertar_registro(reg, i, bd_ok) ==
  LET existente == buscar_por_documento(personas, reg.dni, reg.pasaporte)
      \* pasaporte.strip() on the tuple (None, None)
      sin_strip == reg.pasaporte = NoneNone
      error(msg) == [fila |-> i + 2, errores |-> <<msg>>]
      \* PersonaSchema(**datos) and, after a ValidationError,
      \* PersonaSchema(**datos_min) with the same names and documents
      valida == PersonaSchema_valida(reg)
      persona_id == IF existente # 0 THEN existente ELSE Len(personas) + 1
  IN  IF existente = 0 /\ sin_strip
      THEN /\ stats' = [stats EXCEPT !.errores = Append(@, error("AttributeError"))]
           /\ UNCHANGED <<personas, estadias>>
      ELSE IF existente = 0 /\ ~valida
      THEN /\ stats' = [stats EXCEPT !.errores = Append(@, error("ValidationError"))]
           /\ UNCHANGED <<personas, estadias>>
      ELSE /\ personas' = IF existente # 0 THEN personas
                          ELSE Append(personas, PersonaSchema_dump(reg))
           /\ IF bd_ok
              THEN /\ estadias' = Append(estadias, [persona_id |-> persona_id,
                                                    fecha_entrada |-> reg.fecha_entrada])
                   /\ stats' = [stats EXCEPT !.estadias_creadas = @ + 1]
              ELSE /\ stats' = [stats EXCEPT !.errores = Append(@, error("DatabaseError"))]
                   /\ UNCHANGED estadias

\* one turn of "for i, reg in enumerate(registros)"; on_progress, when
\* given, is called and returns
Importar_insertar ==
  /\ pc = "insertar"
  /\ idx <= Len(registros)
  /\ \E bd_ok \in BOOLEAN : insertar_registro(registros[idx], idx - 1, bd_ok)
  /\ idx' = idx + 1
  /\ UNCHANGED <<rowVars, viewVars, authVars, archivo, settings, mapeo_override, pc, df,
                 parseVars>>
  /\ UNCHANGED <<mapeo, registros, errores, excepcion>>

\* the loop is over: stats is returned
Importar_return ==
  /\ pc = "insertar"
  /\ idx > Len(registros)
  /\ pc' = "importar_fin"
  /\ UNCHANGED <<rowVars, viewVars, authVars, archivo, settings, mapeo_override, df, idx,
                 parseVars, importarVars>>

----------------------------------------------------------------------------
(* views/import_view.py: ImportView, after parser.parse() returned.  A     *)
(* list holds the identities of its dicts: two lists that hold the same    *)
(* identity hold the same dict, and a change of the dict shows in both.    *)

PREVIEW_ROWS == 10

\* lista[:n]
primeros(lista, n) == SubSeq(lista, 1, IF Len(lista) < n THEN Len(lista) ELSE n)

\* _load_preview: self._all_data = result.get("valid_rows", []) and
\* self._preview_data = self._all_data[:PREVIEW_ROWS]
View_load_preview ==
  /\ pc = "parse_fin"
  /\ objetos' = valid_rows
  /\ _all_data' = [i \in DOMAIN valid_rows |-> i]
  /\ _preview_data' = primeros([i \in DOMAIN valid_rows |-> i], PREVIEW_ROWS)
  /\ pc' = "preview"
  /\ UNCHANGED <<rowVars, archivo, settings, mapeo_override, df, idx, importado,
                 parseVars, importarVars, authVars>>

\* the text of rec["documento"]
documento_texto(dni, pas) ==
  IF dni # Empty /\ pas # Empty
  THEN <<"D","N","I",":"," ">> \o dni \o <<" ","/"," ","P","A","S",":"," ">> \o pas
  ELSE IF dni # Empty THEN <<"D","N","I",":"," ">> \o dni
  ELSE IF pas # Empty THEN <<"P","A","S",":"," ">> \o pas
  ELSE <<"S","/","N">>

\* the body of "for rec in self._preview_data": rec.pop("dni", None) or "",
\* rec.pop("pasaporte", None) or "", rec["documento"] = ...; a key that is
\* not in the dict reads None, as rec.get does
unificar_documento(rec) ==
  ("documento" :> documento_texto(IF truthy(rec.dni) THEN rec.dni ELSE Empty,
                                  IF truthy(rec.pasaporte) THEN rec.pasaporte ELSE Empty))
    @@ [rec EXCEPT !.dni = None, !.pasaporte = None]

\* _display_preview: the loop over self._preview_data
View_display_preview ==
  /\ pc = "preview"
  /\ objetos' = [i \in DOMAIN objetos |->
                  IF i \in Range(_preview_data) THEN unificar_documento(objetos[i])
                  ELSE objetos[i]]
  /\ pc' = "mostrado"
  /\ idx' = 1
  /\ UNCHANGED <<rowVars, archivo, settings, mapeo_override, df, _all_data,
                 _preview_data, importado, parseVars, importarVars, authVars>>

\* _import_thread: one turn of "for i, row in enumerate(self._all_data, 1)":
\* row["usuario_carga"] is set and the dict is handed to controller.crear
View_import_thread ==
  /\ pc = "mostrado"
  /\ idx <= Len(_all_data)
  /\ objetos' = [objetos EXCEPT ![_all_data[idx]] = ("usuario_carga" :> "username") @@ @]
  /\ importado' = Append(importado, objetos'[_all_data[idx]])
  /\ idx' = idx + 1
  /\ UNCHANGED <<rowVars, archivo, settings, mapeo_override, pc, df, _all_data,
                 _preview_data, parseVars, importarVars, authVars>>

Next ==
  \/ Parse_read_file
  \/ Parse_iterrows
  \/ Parse_return
  \/ Importar_leer
  \/ Importar_mapeo
  \/ Importar_procesar_fila
  \/ Importar_procesado
  \/ Importar_insertar
  \/ Importar_return
  \/ View_load_preview
  \/ View_display_preview
  \/ View_import_thread

Spec == Init /\ [][Next]_vars

----------------------------------------------------------------------------
(* importar up to the required-fields check and parse up to the mapping    *)
(* of the columns, on many mappings                                        *)

\* most columns in a sheet
MaxColumnas == 3

\* the sequences of 1 to n different titles
RECURSIVE ListasDeTitulos(_)
ListasDeTitulos(n) ==
  IF n = 1 THEN {<<t>> : t \in Titulos}
  ELSE ListasDeTitulos(n - 1)
       \cup {l \in {Append(x, t) : x \in ListasDeTitulos(n - 1), t \in Titulos} :
               \A i, j \in DOMAIN l : i # j => l[i] # l[j]}

TitulosSeparados == [i \in DOMAIN CabeceraSeparada |-> CabeceraSeparada[i].titulo]

\* a workbook whose first sheet has these columns and one row of text
ArchivoCon(columnas) ==
  << [nombre |-> Hojas[1], columnas |-> columnas,
      filas |-> <<[i \in DOMAIN columnas |-> <<"x">>]>>],
     [nombre |-> Hojas[2], columnas |-> <<>>, filas |-> <<>>] >>

\* the manual mappings: each non-empty set of these fields, a field under
\* the column of its own name
CamposManuales ==
  <<"apellido_nombre", "apellido", "nombre", "dni", "pasaporte", "fecha_entrada", "edad">>

MapeoManual(S) ==
  LET campos == SelectSeq(CamposManuales, LAMBDA c : c \in S)
  IN  [i \in DOMAIN campos |-> [col |-> Clave[campos[i]], campo |-> campos[i]]]

InitMapeo ==
  /\ \/ /\ archivo \in {ArchivoCon(l) : l \in ListasDeTitulos(MaxColumnas) \cup {TitulosSeparados}}
        /\ mapeo_override = <<>>
     \/ /\ archivo = ArchivoCon(TitulosSeparados)
        /\ mapeo_override \in {MapeoManual(S) : S \in SUBSET Range(CamposManuales) \ {{}}}
  /\ settings = SettingsRepo
  /\ pc = "inicio"
  /\ SinResultados
  /\ SinSesion
  /\ row = FilaOciosa
  /\ data = Pendiente
  /\ registro = Pendiente
  /\ SinValor

NextMapeo == Importar_leer \/ Importar_mapeo \/ Parse_read_file

SpecMapeo == InitMapeo /\ [][NextMapeo]_vars

----------------------------------------------------------------------------
(* The functions that take one value, each run on its own                  *)

\* the numbers of a date text
PartesFecha ==
  { <<"0","1">>, <<"0","2">>, <<"1","2">>, <<"1","3">>, <<"2","5">>, <<"3","1">> }

\* the texts of a date cell: two numbers and a year of four or two digits,
\* separated by "/" or by "-"; ISO dates; and text that is no date
FechasTexto ==
  { a \o <<sep>> \o b \o <<sep>> \o y :
      a \in PartesFecha, b \in PartesFecha, sep \in {"/", "-"},
      y \in { <<"2","0","2","4">>, <<"2","4">> } }
  \cup { <<"2","0","2","4","-","0","2","-","0","1">>,
         <<"2","0","2","4","/","0","2","/","0","1">>,
         <<" ","0","1","/","0","2","/","2","0","2","4"," ">>,
         <<"x","x">>,
         <<"n","a","n">> }

\* the cells of age, birth date and check-in date of a row that has names
\* and a document
EdadesTexto ==
  { <<>>, <<"2","5">>, <<"2","5",".","0">>, <<"0">>, <<"1","5","0">>,
    <<"-","3">>, <<"a","b","c">> }

NacimientosTexto ==
  { <<>>,
    <<"2","0","/","0","5","/","2","0","0","0">>,
    <<"1","0","/","0","5","/","2","0","0","0">>,
    <<"0","9","/","0","5","/","2","0","0","0">>,
    <<"2","9","/","0","2","/","2","0","0","0">>,
    <<"2","0","/","0","5","/","2","0","3","0">>,
    <<"x","x">> }

EntradasTexto ==
  { <<"1","0","/","0","5","/","2","0","2","4">>,
    <<"2","8","/","0","2","/","2","0","2","5">>,
    <<"0","1","/","0","1","/","2","0","2","4">> }

Edades ==
  [edad : EdadesTexto, fecha_nacimiento : NacimientosTexto, fecha_entrada : EntradasTexto]

\* most characters in a column title handed to a normaliser
MaxLenTitulo == 3

\* the characters of those titles
LetrasTitulo == {"a", "N", " ", "<TAB>", "<NBSP>", ".", "°", "º", "_"}

\* the texts of at most n of those characters
RECURSIVE TextosHasta(_)
TextosHasta(n) ==
  IF n = 0 THEN {<<>>}
  ELSE TextosHasta(n - 1)
       \cup {Append(t, c) : t \in {x \in TextosHasta(n - 1) : Len(x) = n - 1},
                            c \in LetrasTitulo}

\* most characters in a text handed to sanitizar_texto
MaxLenTexto == 5

\* the characters of those texts
LetrasTexto == {"a", " ", "<TAB>", "<SOH>"}

\* the texts of at most n characters of the set letras
RECURSIVE TextosDe(_, _)
TextosDe(letras, n) ==
  IF n = 0 THEN {<<>>}
  ELSE TextosDe(letras, n - 1)
       \cup {Append(t, c) : t \in {x \in TextosDe(letras, n - 1) : Len(x) = n - 1},
                            c \in letras}

InitValor ==
  /\ \/ pc = "fecha" /\ valor \in FechasTexto
     \/ pc = "edad" /\ valor \in Edades
     \/ pc = "titulo" /\ valor \in TextosHasta(MaxLenTitulo)
     \/ pc = "texto" /\ valor \in TextosDe(LetrasTexto, MaxLenTexto)
  /\ salida = SinSalida
  /\ row = FilaOciosa
  /\ data = Pendiente
  /\ registro = Pendiente
  /\ archivo = <<>>
  /\ settings = SettingsRepo
  /\ mapeo_override = <<>>
  /\ SinResultados
  /\ SinSesion

\* the function named op returned res
Devuelve(op, res) ==
  /\ salida = SinSalida
  /\ salida' = [op |-> op, res |-> res]
  /\ UNCHANGED <<row, data, registro, valor, archivo, settings,
                 mapeo_override, pc, df, idx>>
  /\ UNCHANGED <<parseVars, importarVars, viewVars, authVars>>

\* _rebuild_phase2.py: _parse_date(valor)
Valor_parse_date ==
  /\ pc = "fecha"
  /\ Devuelve("_parse_date", _parse_date(valor))

\* utils/excel_parser.py: ExcelParser._parse_date(value)
Valor_ExcelParser_parse_date ==
  /\ pc = "fecha"
  /\ Devuelve("ExcelParser._parse_date", ExcelParser_parse_date(valor))

\* an empty cell is NaN, for which get_val returns None
celda_o_None(val) == IF val = Empty THEN None ELSE val

\* _rebuild_phase2.py: the age _procesar_fila emits for a row whose check-in
\* date resolved
Valor_edad ==
  /\ pc = "edad"
  /\ Devuelve("edad", edad_de(_parse_edad(celda_o_None(valor.edad)),
                              _parse_date(celda_o_None(valor.fecha_nacimiento)),
                              _parse_date(celda_o_None(valor.fecha_entrada))))

\* utils/excel_parser.py: the age _process_row puts in data, from the age
\* cell alone: int(float(edad)) when it is above 0 and below 150
ExcelParser_edad(edad) ==
  IF edad # None /\ int_float(edad) # <<>>
       /\ 0 < int_float(edad)[1] /\ int_float(edad)[1] < 150
  THEN int_float(edad)
  ELSE <<>>

Valor_ExcelParser_edad ==
  /\ pc = "edad"
  /\ Devuelve("ExcelParser.edad",
              ExcelParser_edad(IF strip(valor.edad) # Empty THEN strip(valor.edad) ELSE None))

\* _rebuild_phase2.py: _normalize(text)
Valor_normalize ==
  /\ pc = "titulo"
  /\ Devuelve("_normalize", _normalize(valor))

\* utils/excel_parser.py: normalize(text), local to _auto_map_columns
Valor_ExcelParser_normalize ==
  /\ pc = "titulo"
  /\ Devuelve("ExcelParser.normalize", normalize(valor))

\* utils/validators.py: sanitizar_texto(texto)
Valor_sanitizar_texto ==
  /\ pc = "texto"
  /\ Devuelve("sanitizar_texto", sanitizar_texto(valor))

NextValor ==
  \/ Valor_parse_date
  \/ Valor_ExcelParser_parse_date
  \/ Valor_edad
  \/ Valor_normalize
  \/ Valor_ExcelParser_normalize
  \/ Valor_sanitizar_texto
  \/ Valor_ExcelParser_edad

SpecValor == InitValor /\ [][NextValor]_vars

----------------------------------------------------------------------------
(* controllers/auth_controller.py and models/usuario.py: login              *)

MAX_LOGIN_ATTEMPTS == 3

LOCKOUT_DURATION_MINUTES == 15

\* the clock runs from 0 to MaxAhora minutes
MaxAhora == 17

\* the accounts of the table and a name that is not in it
Cuentas == {"admin", "recep"}

Nombres == Cuentas \cup {"nadie"}

\* UsuarioDAO.incrementar_intentos_fallidos: the row after the UPDATE
incrementar_intentos_fallidos(user) ==
  [user EXCEPT !.intentos_fallidos = @ + 1]

\* UsuarioDAO.bloquear_cuenta
bloquear_cuenta(user, hasta) == [user EXCEPT !.bloqueado_hasta = <<hasta>>]

\* UsuarioDAO.resetear_intentos
resetear_intentos(user) ==
  [user EXCEPT !.intentos_fallidos = 0, !.bloqueado_hasta = <<>>]

\* login, step 3: user["bloqueado_hasta"] is set and now is before it
bloqueo_vigente(user, now) ==
  user.bloqueado_hasta # <<>> /\ now < user.bloqueado_hasta[1]

\* login without step 3: the password is verified whatever bloqueado_hasta is
login_sin_verificar_bloqueo(user, clave_ok, now) ==
  IF ~user.activo THEN [user |-> user, resultado |-> "AccountDisabledError"]
  ELSE IF ~clave_ok
  THEN LET u == incrementar_intentos_fallidos(user)
       IN  IF u.intentos_fallidos >= MAX_LOGIN_ATTEMPTS
           THEN [user |-> bloquear_cuenta(u, now + LOCKOUT_DURATION_MINUTES),
                 resultado |-> "AccountLockedError"]
           ELSE [user |-> u, resultado |-> "InvalidCredentialsError"]
  ELSE [user |-> resetear_intentos(user), resultado |-> "SessionInfo"]

\* AuthController.login from step 2 on, for the row user that step 1 found:
\* the row as login leaves it and how login ends; clave_ok is what
\* verify_password(password, user["password_hash"]) returns
login_usuario(user, clave_ok, now) ==
  IF ~user.activo THEN [user |-> user, resultado |-> "AccountDisabledError"]
  ELSE IF bloqueo_vigente(user, now)
  THEN [user |-> user, resultado |-> "AccountLockedError"]
  ELSE LET u1 == IF user.bloqueado_hasta # <<>> THEN resetear_intentos(user)
                 ELSE user
       IN  IF ~clave_ok
           THEN LET u2 == incrementar_intentos_fallidos(u1)
                IN  IF u2.intentos_fallidos >= MAX_LOGIN_ATTEMPTS
                    THEN [user |-> bloquear_cuenta(u2, now + LOCKOUT_DURATION_MINUTES),
                          resultado |-> "AccountLockedError"]
                    ELSE [user |-> u2, resultado |-> "InvalidCredentialsError"]
           ELSE [user |-> resetear_intentos(u1), resultado |-> "SessionInfo"]

\* a new table: nobody failed, nobody is locked; an account may be disabled
InitLogin ==
  /\ usuarios \in [Cuentas -> {[activo |-> a, intentos_fallidos |-> 0,
                                bloqueado_hasta |-> <<>>] : a \in BOOLEAN}]
  /\ ahora = 0
  /\ _session = <<>>
  /\ intento = SinIntento
  /\ pc = "login"
  /\ valor = Empty
  /\ salida = SinSalida
  /\ row = FilaOciosa
  /\ data = Pendiente
  /\ registro = Pendiente
  /\ archivo = <<>>
  /\ settings = SettingsRepo
  /\ mapeo_override = <<>>
  /\ SinResultados

\* AuthController.login(username, password)
Login(username, clave_ok) ==
  /\ pc = "login"
  /\ IF username \notin DOMAIN usuarios
     THEN /\ intento' = [username |-> username, clave_ok |-> clave_ok,
                         resultado |-> "InvalidCredentialsError"]
          /\ UNCHANGED <<usuarios, _session>>
     ELSE LET r == login_usuario(usuarios[username], clave_ok, ahora)
          IN  /\ usuarios' = [usuarios EXCEPT ![username] = r.user]
              /\ _session' = IF r.resultado = "SessionInfo" THEN <<username>>
                             ELSE _session
              /\ intento' = [username |-> username, clave_ok |-> clave_ok,
                             resultado |-> r.resultado]
  /\ UNCHANGED <<rowVars, viewVars, archivo, settings, mapeo_override, pc, df,
                 idx, ahora, parseVars, importarVars>>

Login_login == \E username \in Nombres, clave_ok \in BOOLEAN : Login(username, clave_ok)

\* AuthController.logout
Login_logout ==
  /\ pc = "login"
  /\ _session # <<>>
  /\ _session' = <<>>
  /\ UNCHANGED <<rowVars, viewVars, archivo, settings, mapeo_override, pc, df,
                 idx, usuarios, ahora, intento, parseVars, importarVars>>

\* a minute passes
Login_minuto ==
  /\ pc = "login"
  /\ ahora < MaxAhora
  /\ ahora' = ahora + 1
  /\ UNCHANGED <<rowVars, viewVars, archivo, settings, mapeo_override, pc, df,
                 idx, usuarios, _session, intento, parseVars, importarVars>>

NextLogin ==
  \/ Login_login
  \/ Login_logout
  \/ Login_minuto

SpecLogin == InitLogin /\ [][NextLogin]_vars

----------------------------------------------------------------------------
(* Claims about a whole file (checked under Spec and SpecMapeo)             *)

\* no two records of the list have the same document key
SinClaveRepetida(lista) ==
  \A i, j \in DOMAIN lista :
    (i < j /\ doc_key(lista[i]) # Empty) => doc_key(lista[i]) # doc_key(lista[j])

\* C1: within one parse of a file the list of valid records never holds two
\* records with the same document key (the DNI if there is one, else the
\* passport), neither the list ExcelParser.parse collects nor the list
\* procesar_dataframe collects for importar.
C1_UnaClavePorValido ==
  /\ SinClaveRepetida(valid_rows)
  /\ SinClaveRepetida(registros)

\* a set of canonical fields lacks one of the three required groups
faltaGrupo(campos) ==
  \/ "apellido_nombre" \notin campos /\ ~({"apellido", "nombre"} \subseteq campos)
  \/ "dni" \notin campos /\ "pasaporte" \notin campos
  \/ "fecha_entrada" \notin campos

\* C2: when the column mapping lacks a required group (name, document or
\* check-in date) the import stops at the missing-columns condition before
\* any row is processed: no row has been normalised, no record is valid, no
\* person and no stay is created.  Stated for the parse of ExcelParser and
\* for importar.
C2_AbortaSinColumnas ==
  /\ (pc \in {"parse_filas", "parse_fin"} /\ faltaGrupo(campos_mapeados(_column_map))) =>
       /\ idx = 1
       /\ valid_rows = <<>> /\ errors = <<>> /\ duplicates = <<>> /\ skipped = 0
  /\ pc \in {"procesar", "insertar", "importar_fin"} => ~faltaGrupo(campos_mapeados(mapeo))
  /\ (pc = "abortado" /\ excepcion.tipo = "MissingColumnsError") =>
       /\ faltaGrupo(campos_mapeados(mapeo))
       /\ registros = <<>> /\ errores = <<>> /\ personas = <<>> /\ estadias = <<>>

\* the names the check gives to the groups that campos lacks
gruposFaltantes(campos) ==
  (IF "apellido_nombre" \notin campos /\ ~({"apellido", "nombre"} \subseteq campos)
   THEN {"apellido_nombre (o apellido + nombre separados)"} ELSE {})
  \cup (IF "dni" \notin campos /\ "pasaporte" \notin campos
        THEN {"dni o pasaporte"} ELSE {})
  \cup (IF "fecha_entrada" \notin campos THEN {"fecha_entrada (entrada)"} ELSE {})

\* C3: the required-fields check reports nothing missing exactly when the
\* mapped fields contain (apellido_nombre, or apellido and nombre) and (dni
\* or pasaporte) and fecha_entrada; otherwise it names every missing group,
\* each once; and the mapping detected for the headers Apellido, Nombre,
\* DNI, Fecha Entrada passes the check.
C3_CamposObligatorios ==
  pc \in {"procesar", "abortado"} =>
    /\ (pc = "procesar") <=> ~faltaGrupo(campos_mapeados(mapeo))
    /\ pc = "procesar" => excepcion = SinExcepcion
    /\ pc = "abortado" =>
         /\ excepcion.tipo = "MissingColumnsError"
         /\ Range(excepcion.missing) = gruposFaltantes(campos_mapeados(mapeo))
         /\ Len(excepcion.missing) = Cardinality(gruposFaltantes(campos_mapeados(mapeo)))
    /\ (df.columns = TitulosSeparados /\ mapeo_override = <<>>) => pc = "procesar"

\* the headers of the example were mapped by detection and passed the check
C3_Testigo ==
  /\ pc = "procesar"
  /\ df.columns = TitulosSeparados
  /\ mapeo_override = <<>>
  /\ campos_mapeados(mapeo) = {"apellido", "nombre", "dni", "fecha_entrada"}

\* a step of one of the two row loops on a row that raises
C4_PasoConError ==
  /\ (pc = "parse_filas" /\ idx <= Len(df.rows)
        /\ _process_row(df.rows[idx]).kind = "error") =>
       /\ Len(errors') = Len(errors) + 1
       /\ SubSeq(errors', 1, Len(errors)) = errors
       /\ errors'[Len(errors')].row = row_label(df.rows[idx].hoja, df.rows[idx].fila)
       /\ errors'[Len(errors')].error # ""
       /\ valid_rows' = valid_rows
       /\ duplicates' = duplicates
       /\ idx' = idx + 1
       /\ pc' = "parse_filas"
  /\ (pc = "procesar" /\ idx <= Len(df.rows)
        /\ _procesar_fila(df.rows[idx], invertir_mapeo(mapeo), idx + 1).kind = "error") =>
       /\ Len(errores') = Len(errores) + 1
       /\ SubSeq(errores', 1, Len(errores)) = errores
       /\ errores'[Len(errores')].fila = idx + 1
       /\ Len(errores'[Len(errores')].errores) = 1
       /\ errores'[Len(errores')].errores[1] # ""
       /\ registros' = registros
       /\ idx' = idx + 1
       /\ pc' = "procesar"
  /\ (pc \in {"parse_filas", "procesar"} /\ pc' # pc) => idx > Len(df.rows)

unoAUno(m) ==
  \A i, j \in DOMAIN m : i # j => (m[i].col # m[j].col /\ m[i].campo # m[j].campo)

\* C14: for any list of headers of one sheet the mapping the column mapper
\* returns binds each header to at most one canonical field and each
\* canonical field to at most one header; stated for detectar_mapeo and for
\* ExcelParser._auto_map_columns.
C14_MapeoUnoAUno ==
  /\ (pc \in {"procesar", "abortado"} /\ mapeo_override = <<>>) => unoAUno(mapeo)
  /\ pc = "parse_filas" => unoAUno(_column_map)

\* a sheet of three headers, one of which matches the aliases of more than
\* one field, where _auto_map_columns bound three fields
C14_Testigo ==
  /\ pc = "parse_filas"
  /\ Len(df.columns) = 3
  /\ campos_mapeados(_column_map) = {"apellido_nombre", "apellido", "dni"}

\* the rows ExcelParser.parse has walked through when it returns
filas_procesadas == Len(valid_rows) + Len(errors) + Len(duplicates) + skipped

\* C15: when the input has more rows than the configured maximum N the parse
\* does not fail and exactly the first N rows, in input order, are
\* processed: ExcelParser.parse walks through the first N rows that
\* _read_file returned, and importar does not end in the ImportFileError of
\* leer_archivo.
C15_TruncaSinFallar ==
  /\ (pc \in {"parse_filas", "parse_fin"}
        /\ Len(_read_file(archivo).df.rows) > settings.MAX_IMPORT_ROWS)
       => /\ df.rows = SubSeq(_read_file(archivo).df.rows, 1, settings.MAX_IMPORT_ROWS)
          /\ pc = "parse_fin" => filas_procesadas = settings.MAX_IMPORT_ROWS
  /\ Len(archivo[1].filas) > settings.MAX_IMPORT_ROWS
       => ~(pc = "abortado" /\ excepcion.tipo = "ImportFileError")

\* the positions, in the sheet, of the rows that _read_file keeps
posiciones_con_texto(sheet) ==
  SelectSeq([k \in DOMAIN sheet.filas |-> k],
            LAMBDA k : \E i \in DOMAIN sheet.filas[k] : strip(sheet.filas[k][i]) # Empty)

\* the rows of the DataFrame that came from a sheet, in order
filas_de_hoja(rows, nombre) == SelectSeq(rows, LAMBDA r : r.hoja = nombre)

\* C16: every duplicate and error produced from a row carries the name of
\* the sheet it came from and the row's original number in that sheet, the
\* header being row 1 and the first data row 2, also for the rows that
\* follow dropped blank rows: the rows ExcelParser.parse walks through are
\* tagged with their position in the sheet plus one, and every label of an
\* error or of a duplicate is the tag of a row walked through.
C16_FilaOriginal ==
  pc \in {"parse_filas", "parse_fin"} =>
    /\ \A s \in DOMAIN archivo :
         LET pos == posiciones_con_texto(archivo[s])
             filas == filas_de_hoja(df.rows, archivo[s].nombre)
         IN  \A n \in DOMAIN filas :
               n \in DOMAIN pos /\ filas[n].fila = pos[n] + 1
    /\ \A e \in Range(errors) \cup Range(duplicates) :
         \E k \in 1..(idx - 1) :
           k \in DOMAIN df.rows /\ e.row = row_label(df.rows[k].hoja, df.rows[k].fila)

\* no sheet of the workbook has a row with text
libro_vacio(file) == \A s \in DOMAIN file : filas_con_texto(file[s]) = <<>>

\* parse returned nothing: no rows, no valid records, no errors, no
\* duplicates
resultado_vacio ==
  /\ df.rows = <<>>
  /\ valid_rows = <<>> /\ errors = <<>> /\ duplicates = <<>>

\* C17: parsing a workbook whose every sheet is empty after the blank rows
\* are dropped raises no exception and returns an empty result: zero rows,
\* no valid records, no errors, no duplicates.
C17_LibroVacio ==
  libro_vacio(archivo) =>
    /\ pc # "abortado"
    /\ pc = "parse_fin" => resultado_vacio
    /\ pc = "importar_fin" =>
          stats.total_filas = 0 /\ stats.errores = <<>> /\ registros = <<>>

\* the errors that the persistence phase added to those of the parse
errores_de_persistencia == SubSeq(stats.errores, Len(errores) + 1, Len(stats.errores))

igual_alias_de ==
  [c \in {col_clean(x) : x \in Titulos} |->
     {i \in DOMAIN COLUMNAS_MAPEO :
        \/ c \in Range(COLUMNAS_MAPEO[i].aliases)
        \/ normalize(c) \in Range(normalized_aliases[i])}]

_igual_alias_de ==
  [t \in {strip(x) : x \in Titulos} |->
     {i \in DOMAIN COLUMNAS_MAPEO : _normalize(t) \in Range(aliases_normalize[i])}]

campo_numero(campo) == CHOOSE i \in DOMAIN COLUMNAS_MAPEO : COLUMNAS_MAPEO[i].campo = campo

\* C20: a field is bound by partial matching only if no header of the sheet
\* equals one of its aliases: when a header of the sheet equals an alias of
\* the field of an item of the mapping, the header of the item equals an
\* alias of the field too, whatever the order of the headers; stated for
\* ExcelParser._auto_map_columns and for detectar_mapeo.
C20_ExactaAntesQueParcial ==
  /\ pc = "parse_filas" =>
        \A k \in DOMAIN _column_map :
          (\E h \in Range(columnas_limpias(archivo[1])) :
             campo_numero(_column_map[k].campo) \in igual_alias_de[h])
            => campo_numero(_column_map[k].campo) \in igual_alias_de[_column_map[k].col]
  /\ (pc \in {"procesar", "abortado"} /\ mapeo_override = <<>>) =>
        \A k \in DOMAIN mapeo :
          (\E h \in Range(df.columns) :
             campo_numero(mapeo[k].campo) \in _igual_alias_de[strip(h)])
            => campo_numero(mapeo[k].campo) \in _igual_alias_de[mapeo[k].col]

\* the fields of which an alias of 5 or more characters, once normalised,
\* contains or is contained in a column title of the runs, by the
\* normaliser of _auto_map_columns and by that of _map_column
alias_largo_de ==
  [c \in {col_clean(x) : x \in Titulos} |->
     {i \in DOMAIN COLUMNAS_MAPEO :
        \E a \in Range(normalized_aliases[i]) :
          /\ Len(a) >= 5
          /\ isin(a, normalize(c)) \/ isin(normalize(c), a)}]

_alias_largo_de ==
  [t \in {strip(x) : x \in Titulos} |->
     {i \in DOMAIN COLUMNAS_MAPEO :
        \E a \in Range(aliases_normalize[i]) :
          /\ Len(a) >= 5
          /\ isin(a, _normalize(t)) \/ isin(_normalize(t), a)}]

\* C21: partial matching never binds a header through an alias whose
\* normalised form is shorter than 5 characters: the header of every item
\* of a mapping equals an alias of the item's field, or contains or is
\* contained in an alias of the field of 5 or more characters; stated for
\* ExcelParser._auto_map_columns and for detectar_mapeo.
C21_SinAliasCorto ==
  /\ pc = "parse_filas" =>
        \A k \in DOMAIN _column_map :
          campo_numero(_column_map[k].campo)
            \in igual_alias_de[_column_map[k].col] \cup alias_largo_de[_column_map[k].col]
  /\ (pc \in {"procesar", "abortado"} /\ mapeo_override = <<>>) =>
        \A k \in DOMAIN mapeo :
          campo_numero(mapeo[k].campo)
            \in _igual_alias_de[mapeo[k].col] \cup _alias_largo_de[mapeo[k].col]

\* a turn of the persistence loop that creates no stay stores no person
C26_PasoSinEstadia ==
  (pc = "insertar" /\ idx' = idx + 1 /\ estadias' = estadias) => personas' = personas

\* C26: for each valid record the person is found or created and the stay
\* is created as one transaction: when creating the stay fails for a
\* record, no person created for that record remains stored.
C26_UnaTransaccion == [][C26_PasoSinEstadia]_vars

\* C27: after parse every processed row is counted in exactly one of valid,
\* errors, duplicates or skipped: len(valid_rows) + len(errors) +
\* len(duplicates) + skipped equals the number of rows processed, and equals
\* the reported total_rows.
C27_CuentaFilas ==
  /\ pc = "parse_filas" => filas_procesadas = idx - 1
  /\ pc = "parse_fin" =>
        /\ filas_procesadas = Len(df.rows)
        /\ filas_procesadas = total_rows

\* the kind of the document that identifies a record
tipo_documento(d) ==
  IF truthy(d.dni) THEN "dni" ELSE IF truthy(d.pasaporte) THEN "pasaporte" ELSE ""

\* C28: a row is routed to the duplicates only when an earlier valid row
\* carries the same document of the same type: a row identified only by a
\* passport is never a duplicate of a row identified by a national_id, even
\* when the two document strings are equal.
C28_DuplicadoMismoTipo ==
  \A k \in DOMAIN duplicates :
    \E v \in DOMAIN valid_rows :
      /\ tipo_documento(valid_rows[v]) = tipo_documento(duplicates[k])
      /\ doc_key(valid_rows[v]) = doc_key(duplicates[k])

\* C29: displaying the preview leaves the records to be imported unchanged:
\* after _display_preview every record of _all_data still has the dni and
\* the pasaporte the parser produced, and the import thread hands over the
\* parsed documents.
C29_PreviewSinCambios ==
  /\ pc = "mostrado" =>
        \A i \in DOMAIN _all_data :
          /\ objetos[_all_data[i]].dni = valid_rows[i].dni
          /\ objetos[_all_data[i]].pasaporte = valid_rows[i].pasaporte
  /\ \A i \in DOMAIN importado :
        /\ importado[i].dni = valid_rows[i].dni
        /\ importado[i].pasaporte = valid_rows[i].pasaporte

----------------------------------------------------------------------------
(* Claims about the functions of one value (checked under SpecValor)       *)

\* the day/month/year reading and the month/day/year reading of a text
diaPrimero(s) == firstFormat(s, pandas_dia_primero)

mesPrimero(s) == firstFormat(s, pandas_mes_primero)

\* in a list of formats every day/month/year format precedes every
\* month/day/year format
diaAntesDeMes(formats) ==
  \A i, j \in DOMAIN formats :
    (formats[i].ord[1] = "d" /\ formats[j].ord[1] = "m") => i < j

\* C11: the date parser returns what the first format of its ordered list
\* that accepts the text gives, every day/month/year format precedes
\* month/day/year, and a text whose day-first reading is a valid date parses
\* as that date ("01/02/2024" is 1 February 2024): the month-first reading is
\* used only when the day-first reading is no valid date.
C11_PrioridadDiaMes ==
  /\ diaAntesDeMes(formatos)
  /\ diaAntesDeMes(ExcelParser_formats)
  /\ salida.op = "_parse_date" =>
       salida.res = firstFormat(strip(valor), formatos)
  /\ (salida.op = "ExcelParser._parse_date"
        /\ firstFormat(strip(valor), ExcelParser_formats) # NoDate) =>
       salida.res = firstFormat(strip(valor), ExcelParser_formats)
  /\ (salida.op \in {"_parse_date", "ExcelParser._parse_date"}
        /\ diaPrimero(strip(valor)) # NoDate) =>
       salida.res = diaPrimero(strip(valor))

\* the age a cell states, a whole number from 1 to 149: of the age cells of
\* the runs only "25" and "25.0" state one; <<>> when the cell states none
edadExplicita(val) ==
  IF val = <<"2","5">> \/ val = <<"2","5",".","0">> THEN <<25>> ELSE <<>>

\* whole years from birth to ref
aniosCumplidos(nac, ref) ==
  IF ref.m < nac.m \/ (ref.m = nac.m /\ ref.d < nac.d)
  THEN ref.y - nac.y - 1
  ELSE ref.y - nac.y

C13_NormalizarIdempotente ==
  /\ salida.op = "_normalize" =>
       /\ _normalize(salida.res) = salida.res
       /\ valor = Empty => salida.res = Empty
  /\ salida.op = "ExcelParser.normalize" =>
       /\ normalize(salida.res) = salida.res
       /\ valor = Empty => salida.res = Empty

\* C23: for every input text the sanitized text has no control character,
\* no run of two or more spaces and no leading or trailing space.
C23_TextoSaneado ==
  salida.op = "sanitizar_texto" =>
    /\ \A i \in DOMAIN salida.res : salida.res[i] \notin ControlChars
    /\ \A i \in DOMAIN salida.res :
         (i > 1 /\ salida.res[i] = " ") => salida.res[i - 1] # " "
    /\ salida.res # <<>> => (Head(salida.res) # " " /\ salida.res[Len(salida.res)] # " ")

\* C25: every age carried by an emitted record, read from the age column or
\* computed from the birth date, is an integer strictly between 0 and 150,
\* and a record for which no such value can be produced carries no age.
C25_EdadEnRango ==
  salida.op \in {"edad", "ExcelParser.edad"} =>
    \/ salida.res = <<>>
    \/ 0 < salida.res[1] /\ salida.res[1] < 150

----------------------------------------------------------------------------
(* Claims about one row (checked under SpecRow)                            *)

celda(c) == cellOf(row.cells, Clave[c])

\* step 1 and step 2 of each normaliser on the row at hand
nombresEP == nombres_row(row)
nombresP2 == nombres_fila(row, CampoACol)
sinDocumentoEP ==
  documento_row(row).dni = None /\ documento_row(row).pasaporte = None
sinDocumentoP2 ==
  /\ ~truthy(documento_fila(row, CampoACol).dni)
  /\ ~truthy(documento_fila(row, CampoACol).pasaporte)

unSoloNombre(n) == truthy(n.apellido) # truthy(n.nombre)
ambosNombres(n) == truthy(n.apellido) /\ truthy(n.nombre)
ningunNombre(n) == ~truthy(n.apellido) /\ ~truthy(n.nombre)

\* C5: when no document is resolved, the row raises the missing-document
\* error only if both a surname and a given name were resolved; a row with
\* exactly one of the two names and no document returns None (skipped).
C5_SinDocumento ==
  /\ (data.kind # "pending" /\ sinDocumentoEP) =>
       /\ (data.kind = "error" => ambosNombres(nombresEP))
       /\ (unSoloNombre(nombresEP) => data.kind = "none")
  /\ (registro.kind # "pending" /\ sinDocumentoP2) =>
       /\ (registro.kind = "error" => ambosNombres(nombresP2))
       /\ (unSoloNombre(nombresP2) => registro.kind = "none")

\* C6: a row with a resolved name and document whose check-in cell is empty
\* or unparseable raises a row error and is not emitted; the check-in date
\* of every emitted record is the date parsed from the row's check-in cell.
C6_FechaEntradaRequerida ==
  /\ data.kind = "record" =>
       /\ ExcelParser_parse_date(_get_value(row, "fecha_entrada")) # NoDate
       /\ data.fecha_entrada = ExcelParser_parse_date(_get_value(row, "fecha_entrada"))
  /\ (data.kind # "pending" /\ ~ningunNombre(nombresEP) /\ ~sinDocumentoEP
        /\ ExcelParser_parse_date(_get_value(row, "fecha_entrada")) = NoDate) =>
       data.kind = "error"
  /\ registro.kind = "record" =>
       /\ _parse_date(get_val(row, CampoACol, "fecha_entrada")) # NoDate
       /\ registro.fecha_entrada = _parse_date(get_val(row, CampoACol, "fecha_entrada"))
  /\ (registro.kind # "pending" /\ ~ningunNombre(nombresP2) /\ ~sinDocumentoP2
        /\ _parse_date(get_val(row, CampoACol, "fecha_entrada")) = NoDate) =>
       registro.kind = "error"

\* C7: a row in which neither surname nor given name resolves to a non-empty
\* value returns None: no record and no error, whatever its other cells hold.
C7_SinNombresOmitida ==
  /\ (data.kind # "pending" /\ ningunNombre(nombresEP)) => data.kind = "none"
  /\ (registro.kind # "pending" /\ ningunNombre(nombresP2)) => registro.kind = "none"

\* the split the claim describes, for a combined value with a comma or with
\* two or more words
C8_Esperado(v) ==
  LET t == sanitizar_texto(v)
      w == split(t)
  IN  IF contains(t, ",")
      THEN [apellido |-> strip(SubSeq(t, 1, find(t, ",") - 1)),
            nombre |-> strip(SubSeq(t, find(t, ",") + 1, Len(t)))]
      ELSE [apellido |-> join(SubSeq(w, 1, Len(w) - 1)), nombre |-> w[Len(w)]]

C8_Caso ==
  /\ celda("apellido") = Empty /\ celda("nombre") = Empty
  /\ \/ contains(celda("apellido_nombre"), ",")
     \/ Len(split(celda("apellido_nombre"))) >= 2

\* C8: a combined value with a comma splits at the first comma (left is the
\* surname, right the given name); without a comma the last word is the
\* given name and the words before it, joined by single spaces, the surname.
C8_DivisionApellidoNombre ==
  /\ (data.kind = "record" /\ C8_Caso) =>
       /\ data.apellido = C8_Esperado(celda("apellido_nombre")).apellido
       /\ data.nombre = C8_Esperado(celda("apellido_nombre")).nombre
  /\ (registro.kind = "record" /\ C8_Caso) =>
       /\ registro.apellido = C8_Esperado(celda("apellido_nombre")).apellido
       /\ registro.nombre = C8_Esperado(celda("apellido_nombre")).nombre

\* C9: with the combined column and a separate surname (given-name) column
\* both mapped and the separate cell non-empty, the emitted surname (given
\* name) is the sanitized separate cell, not the part split from the
\* combined cell.
C9_ColumnasSeparadasMandan ==
  \A r \in {data, registro} :
    (r.kind = "record" /\ strip(celda("apellido_nombre")) # Empty) =>
      /\ strip(celda("apellido")) # Empty =>
           r.apellido = sanitizar_texto(celda("apellido"))
      /\ strip(celda("nombre")) # Empty =>
           r.nombre = sanitizar_texto(celda("nombre"))

C10_FormaDni(d) == Len(d) \in {7, 8} /\ \A i \in DOMAIN d : d[i] \in Digits

C10_FormaPasaporte(p) ==
  /\ Len(p) >= 5 /\ Len(p) <= 15
  /\ \A i \in DOMAIN p : p[i] \in Digits \cup Range(UpperSeq)

\* C10: every national_id of an emitted record is 7 or 8 digits and every
\* passport 5 to 15 upper-case alphanumerics; "35.123.456" gives national_id
\* "35123456" and "aa1234567" gives passport "AA1234567".
C10_FormaDocumentos ==
  \A r \in {data, registro} :
    r.kind = "record" =>
      /\ r.dni = None \/ C10_FormaDni(r.dni)
      /\ r.pasaporte = None \/ C10_FormaPasaporte(r.pasaporte)
      /\ (celda("dni") = <<"3","5",".","1","2","3",".","4","5","6">>) =>
           r.dni = <<"3","5","1","2","3","4","5","6">>
      /\ (celda("dni") = <<"a","a","1","2","3","4","5","6","7">>) =>
           r.pasaporte = <<"A","A","1","2","3","4","5","6","7">>

\* C19: document cleaning removes the trailing ".0" that the float coercion
\* of the spreadsheet leaves before it classifies the value: a record made
\* from a row whose document cell is "12345678.0" has national_id
\* "12345678".
C19_QuitaPuntoCero ==
  \A r \in {data, registro} :
    (r.kind = "record" /\ celda("dni") = <<"1","2","3","4","5","6","7","8",".","0">>)
      => r.dni = <<"1","2","3","4","5","6","7","8">>

\* the cells of the row under the columns that no document field is mapped to
otras_celdas ==
  SelectSeq(row.cells, LAMBDA c : c.col \notin {Clave["dni"], Clave["pasaporte"]})

\* what each normaliser resolved from the mapped document cells of the row
mapeadoEP == documentos_row(row)
mapeadoP2 == documento_fila(row, CampoACol)

\* C22: the any-cell document fallback has the lowest priority.  A document
\* resolved from a mapped document column is never replaced by a scanned
\* value; when the mapped document cells yield neither a national_id nor a
\* passport and another cell of the row cleans to a bare 7-8 digit number,
\* the row is not refused for lack of a document and a record made from it
\* has the first such value, in column order, as national_id.
C22_FallbackUltimo ==
  /\ data.kind = "record" =>
       IF mapeadoEP.dni # None \/ mapeadoEP.pasaporte # None
       THEN data.dni = mapeadoEP.dni /\ data.pasaporte = mapeadoEP.pasaporte
       ELSE data.dni = fallback_dni(otras_celdas) /\ data.pasaporte = None
  /\ registro.kind = "record" =>
       IF truthy(mapeadoP2.dni) \/ truthy(mapeadoP2.pasaporte)
       THEN registro.dni = mapeadoP2.dni /\ registro.pasaporte = mapeadoP2.pasaporte
       ELSE registro.dni = fallback_dni(otras_celdas) /\ registro.pasaporte = None
  /\ (data.kind = "error" /\ fallback_dni(otras_celdas) # None)
       => data.error # "Sin documento válido (DNI o Pasaporte)"
  /\ (registro.kind = "error" /\ fallback_dni(otras_celdas) # None)
       => registro.error # "sin documento válido (DNI o Pasaporte)"

\* C24: every record emitted as valid has a non-empty surname and a
\* non-empty given name.
C24_NombresNoVacios ==
  \A r \in {data, registro} :
    r.kind = "record" =>
      /\ r.apellido # None /\ r.apellido # Empty
      /\ r.nombre # None /\ r.nombre # Empty

----------------------------------------------------------------------------
(* Claims about login (checked under SpecLogin)                             *)

\* C30: for any sequence of login attempts on an account, the failed-attempt
\* counter never exceeds MAX_LOGIN_ATTEMPTS, and once it has reached that
\* value no login for the account, not even one with the correct password,
\* creates a session until the lock time has passed.
C30_Paso ==
  \A u \in DOMAIN usuarios :
    /\ usuarios[u].intentos_fallidos <= MAX_LOGIN_ATTEMPTS
    /\ usuarios'[u].intentos_fallidos <= MAX_LOGIN_ATTEMPTS
    /\ usuarios[u].intentos_fallidos = MAX_LOGIN_ATTEMPTS =>
          usuarios[u].bloqueado_hasta # <<>>
    /\ usuarios'[u].intentos_fallidos = MAX_LOGIN_ATTEMPTS =>
          usuarios'[u].bloqueado_hasta # <<>>
    /\ \A clave_ok \in BOOLEAN :
          (/\ usuarios[u].intentos_fallidos = MAX_LOGIN_ATTEMPTS
           /\ ahora < usuarios[u].bloqueado_hasta[1]
           /\ Login(u, clave_ok))
          => /\ _session' = _session
             /\ intento'.resultado = "AccountLockedError"
             /\ usuarios' = usuarios

C30_BloqueoTrasIntentos == [][C30_Paso]_vars

\* a login with the correct password was refused while the account was
\* locked with its counter at MAX_LOGIN_ATTEMPTS
C30_Testigo ==
  /\ pc = "login"
  /\ intento.username \in Cuentas
  /\ intento.clave_ok
  /\ intento.resultado = "AccountLockedError"
  /\ usuarios[intento.username].intentos_fallidos = MAX_LOGIN_ATTEMPTS
  /\ bloqueo_vigente(usuarios[intento.username], ahora)
  /\ ahora > 0

====
